---- MODULE Spec2Model ----
(***************************************************************************)
(* A model of the TypeScript computer-use agent: ComputerUseAgent.run and  *)
(* executeTool (agent.ts), HookRegistry (hooks.ts), WorkflowEngine         *)
(* (workflow.ts) and ActionExecutor (actions.ts).                          *)
(*                                                                         *)
(* Callbacks (hooks, custom tools, conditional handlers), the screen       *)
(* capture, the robot and the reasoning service are code outside the       *)
(* program: what each of them does at one invocation (return, return a     *)
(* replacement, throw) is chosen when it is invoked.                       *)
(***************************************************************************)
EXTENDS Integers, Sequences, FiniteSets, TLC

VARIABLES
    maxIterations,  \* run()'s maxIterations argument
    env,            \* what the service may request and callbacks may return
    executor,       \* ActionExecutor: allowedRegion, confirmationMode, the delays
    hooks,          \* HookRegistry: number of callbacks registered per list
    workflow,       \* WorkflowEngine: customTools, conditionalHandlers
    pc,             \* position of run()/executeTool()
    iteration,      \* the loop variable of run()
    context,        \* AgentContext
    messages,       \* this.messages
    response,       \* the reply of the current turn
    blockIdx,       \* position of the for-of loop over response.content
    toolResults,    \* toolResults of the current turn
    frame,          \* locals of the executeTool call in progress
    returned,       \* <<>> while running, <<result>> once run() has returned
    calls,          \* number of client.messages.create calls of this run
    robot,          \* number of robot (physical) operations of this run
    obs,            \* what the callbacks and the robot saw in this dispatch
    stops,          \* the stop signals of the replies received in this run
    raised,         \* where an exception was raised in this run, "" if none
    historyBefore,  \* the length of actionHistory when the service was last called
    stateBefore,    \* context.state when the current loop pass began
    dispatched,     \* number of executeTool calls of this run that have returned
    ended,          \* number of triggerOnIterationEnd calls of this run
    runs,           \* number of run() calls made on this agent
    request,        \* the messages and tools of the latest client.messages.create call
    now,            \* Date.now(), in milliseconds
    lastActionTime, \* ActionExecutor.lastActionTime
    registered      \* per tool name, the registerTool calls made, oldest first

vars == <<maxIterations, env, executor, hooks, workflow, pc, iteration,
          context, messages, response, blockIdx, toolResults, frame,
          returned, calls, robot, obs, stops, raised, historyBefore,
          stateBefore, dispatched, ended, runs, request, now, lastActionTime,
          registered>>

clock == <<now, lastActionTime>>

config == <<maxIterations, env, executor, hooks, workflow, registered>>

----------------------------------------------------------------------------
(* Bounds *)

MaxIter == 2        \* largest maxIterations tried
MaxBlocks == 2      \* most content blocks in one reply
MaxHooks == 3       \* most callbacks registered in one hook list
MaxCoord == 3       \* coordinates range over 0..MaxCoord
MaxChain == 2       \* most on-tool-call callbacks registered under one key
MaxRuns == 2        \* most run() calls made on one agent
MaxRegistrations == 2   \* most registerTool calls made under one name
MaxCalls == 2       \* most direct executor calls that reach the robot

----------------------------------------------------------------------------
(* Values *)

\* an absent (undefined) number
NoCoord == 0 - 1

Coord == 0 .. MaxCoord

\* a tool input / action payload: an object with optional x and y, or null
Obj(x, y) == [isNull |-> FALSE, x |-> x, y |-> y]
NullPayload == [isNull |-> TRUE, x |-> NoCoord, y |-> NoCoord]

\* a falsy primitive (0, "", false) as a payload: reading a field of it gives
\* undefined
Primitive(literal) ==
    [isNull |-> FALSE, x |-> NoCoord, y |-> NoCoord, primitive |-> literal]
EmptyObj == Obj(NoCoord, NoCoord)

\* the allowed region used when one is configured
Region == [x |-> 1, y |-> 1, width |-> 1, height |-> 1]

Modes == {"auto", "confirm", "dry-run"}

\* delays of the executor, in milliseconds
DefaultSafetyDelay == 100
RateLimitDelay == 50

\* Date.now() when the agent is constructed
StartTime == 1000

\* what the callers of agent.tool pass
Descriptions == {"first", "second"}
Functions == {1, 2}

ExecutorTools == {"mouse_move", "click", "type", "key", "scroll"}
BuiltinTools == {"screenshot"} \cup ExecutorTools
CustomName == "my_tool"
UnknownName == "bogus"
AllNames == BuiltinTools \cup {CustomName, UnknownName}

\* ActionResult (types.ts); error = "" and data.kind = "none" when absent
NoData == [kind |-> "none", x |-> NoCoord, y |-> NoCoord]
Data(kind, x, y) == [kind |-> kind, x |-> x, y |-> y]
Ok(actionType, data) ==
    [success |-> TRUE, actionType |-> actionType, error |-> "", data |-> data]
Fail(actionType, error) ==
    [success |-> FALSE, actionType |-> actionType, error |-> error, data |-> NoData]
NoResult == Fail("none", "none")

\* new AgentContext()
NewContext ==
    [state |-> {}, iteration |-> 0, actionHistory |-> <<>>, lastScreenshot |-> FALSE]

\* what one callback does at one invocation
Observer == {"return", "throw"}
Mutator(values) ==
    {[k |-> "undefined", v |-> NullPayload], [k |-> "throw", v |-> NullPayload]}
        \cup {[k |-> "value", v |-> p] : p \in values}

SeqOf(S, n) == [1 .. n -> S]

----------------------------------------------------------------------------
(* HookRegistry *)

\* Array.forEach from position i on: the positions of the callbacks invoked,
\* in the order of invocation; the first throw ends the loop
RECURSIVE forEachFrom(_, _)
forEachFrom(bs, i) ==
    IF i > Len(bs) THEN [raised |-> FALSE, order |-> <<>>]
    ELSE IF bs[i] = "throw" THEN [raised |-> TRUE, order |-> <<i>>]
    ELSE LET rest == forEachFrom(bs, i + 1)
         IN  [raised |-> rest.raised, order |-> <<i>> \o rest.order]

\* mutant: each callback is called in a try/catch of its own
forEachHookIsolated(bs) ==
    [raised |-> FALSE, ran |-> Len(bs), order |-> [i \in 1 .. Len(bs) |-> i]]

\* Array.forEach over observer callbacks
forEachHook(bs) ==
    LET r == forEachFrom(bs, 1)
    IN  [raised |-> r.raised, ran |-> Len(r.order), order |-> r.order]

triggerBeforeScreenshot(bs) == forEachHook(bs)
triggerAfterScreenshot(bs) == forEachHook(bs)
triggerAfterAction(bs) == forEachHook(bs)
triggerOnIterationStart(bs) == forEachHook(bs)
triggerOnIterationEnd(bs) == forEachHook(bs)

\* a value is truthy unless it is null or a falsy primitive
Truthy(v) == ~v.isNull /\ "primitive" \notin DOMAIN v

\* mutant: a returned value replaces the payload only when it is truthy
RECURSIVE chainTruthy(_, _)
chainTruthy(bs, cand) ==
    IF bs = <<>> THEN [raised |-> FALSE, value |-> cand, seen |-> <<>>]
    ELSE IF Head(bs).k = "throw"
         THEN [raised |-> TRUE, value |-> cand, seen |-> <<cand>>]
    ELSE LET next == IF Head(bs).k = "value" /\ Truthy(Head(bs).v)
                     THEN Head(bs).v ELSE cand
             rest == chainTruthy(Tail(bs), next)
         IN  [raised |-> rest.raised, value |-> rest.value,
              seen |-> <<cand>> \o rest.seen]

\* a replacement-chaining forEach: bs are the callbacks' behaviours, cand the
\* payload so far; seen lists what each invoked callback received; every
\* returned value other than undefined replaces the payload
RECURSIVE chain(_, _)
chain(bs, cand) ==
    IF bs = <<>> THEN [raised |-> FALSE, value |-> cand, seen |-> <<>>]
    ELSE IF Head(bs).k = "throw"
         THEN [raised |-> TRUE, value |-> cand, seen |-> <<cand>>]
    ELSE LET next == IF Head(bs).k = "value" THEN Head(bs).v ELSE cand
             rest == chain(Tail(bs), next)
         IN  [raised |-> rest.raised, value |-> rest.value,
              seen |-> <<cand>> \o rest.seen]

\* mutant: the original action is returned instead of the modified one
triggerBeforeActionOriginal(bs, action) == [chain(bs, action) EXCEPT !.value = action]

triggerBeforeAction(bs, action) == chain(bs, action)

\* what the callbacks of one on-tool-call chain received: the wildcard ones
\* are called with the tool name before the arguments
Received(toolName, seen) == [i \in 1 .. Len(seen) |-> [toolName |-> toolName, args |-> seen[i]]]

\* mutant: the wildcard callbacks chain from the original arguments
triggerOnToolCallApart(specific, wildcard, toolName, args) ==
    LET s == chain(specific, args)
        w == chain(wildcard, args)
    IN  IF s.raised THEN [s EXCEPT !.seen = Received("", s.seen)]
        ELSE [raised |-> w.raised, value |-> w.value,
              seen |-> Received("", s.seen) \o Received(toolName, w.seen)]

\* specific callbacks first, then wildcard callbacks on the mutated arguments
triggerOnToolCall(specific, wildcard, toolName, args) ==
    LET s == chain(specific, args)
        w == chain(wildcard, s.value)
    IN  IF s.raised THEN [s EXCEPT !.seen = Received("", s.seen)]
        ELSE [raised |-> w.raised, value |-> w.value,
              seen |-> Received("", s.seen) \o Received(toolName, w.seen)]

----------------------------------------------------------------------------
(* ActionExecutor *)

\* mutant: the far edges of the region are excluded
checkAllowedExclusive(allowedRegion, x, y) ==
    IF allowedRegion = <<>> THEN TRUE
    ELSE LET r == allowedRegion[1]
         IN  /\ x # NoCoord
             /\ y # NoCoord
             /\ r.x <= x
             /\ x < r.x + r.width
             /\ r.y <= y
             /\ y < r.y + r.height

checkAllowed(allowedRegion, x, y) ==
    IF allowedRegion = <<>> THEN TRUE
    ELSE LET r == allowedRegion[1]
         IN  /\ x # NoCoord
             /\ y # NoCoord
             /\ r.x <= x
             /\ x <= r.x + r.width
             /\ r.y <= y
             /\ y <= r.y + r.height

OutOfRegion(actionType) == Fail(actionType, "outside allowed region")

\* the executor's clock: Date.now() and this.lastActionTime
\* and the time the latest rateLimit call slept
Clock(nowT, last) == [now |-> nowT, lastActionTime |-> last, slept |-> 0]

\* mutant: no wait, the timestamp is recorded at once
rateLimitNoWait(ex, clk) == Clock(clk.now, clk.now)

\* rateLimit: when less than rateLimitDelay has elapsed since lastActionTime,
\* sleep for the remainder (the timer fires when it is due), then record the
\* time
rateLimit(ex, clk) ==
    LET elapsed == clk.now - clk.lastActionTime
        woke == IF elapsed < ex.rateLimitDelay
                THEN clk.now + (ex.rateLimitDelay - elapsed)
                ELSE clk.now
    IN  [Clock(woke, woke) EXCEPT !.slept = woke - clk.now]

\* mutant: every mode but auto holds the operation back
isDryRunUnlessAuto(ex) == ex.confirmationMode # "auto"

\* this.confirmationMode === "dry-run", the only test of the mode
isDryRun(ex) == ex.confirmationMode = "dry-run"

\* mutant: no dry-run short-circuit
executeWithSafetyNoDryRun(ex, clk, actionType, data, robotThrows) ==
    LET limited == rateLimit(ex, clk)
    IN  IF robotThrows
        THEN [result |-> Fail(actionType, "RobotError"), physical |-> TRUE,
              steps |-> <<"dry_run_check", "rate_limit", "robot">>, clock |-> limited]
        ELSE [result |-> Ok(actionType, data), physical |-> TRUE,
              steps |-> <<"dry_run_check", "rate_limit", "robot", "safety_delay">>,
              clock |-> [limited EXCEPT !.now = @ + ex.safetyDelay]]

\* the result, whether actionFunc (the robot) was invoked, the steps taken in
\* order, and the clock afterwards
executeWithSafety(ex, clk, actionType, data, robotThrows) ==
    LET limited == rateLimit(ex, clk)
    IN  IF isDryRun(ex)
        THEN [result |-> Ok(actionType, Data("dryRun", NoCoord, NoCoord)),
              physical |-> FALSE, steps |-> <<"dry_run_check">>, clock |-> clk]
        ELSE IF robotThrows
        THEN [result |-> Fail(actionType, "RobotError"), physical |-> TRUE,
              steps |-> <<"dry_run_check", "rate_limit", "robot">>, clock |-> limited]
        ELSE [result |-> Ok(actionType, data), physical |-> TRUE,
              steps |-> <<"dry_run_check", "rate_limit", "robot", "safety_delay">>,
              clock |-> [limited EXCEPT !.now = @ + ex.safetyDelay]]

\* an executor method that returns before executeWithSafety
rejected(actionType, clk) ==
    [result |-> OutOfRegion(actionType), physical |-> FALSE,
     steps |-> <<>>, clock |-> clk]

\* mutant: the region is looked at after the operation
checkedLate(r) == [r EXCEPT !.steps = @ \o <<"region_check">>]

\* a method's region check came first
checked(r) == [r EXCEPT !.steps = <<"region_check">> \o @]

\* mutant: the dry-run short-circuit comes before the region check
mouseMoveDryRunFirst(ex, clk, x, y, robotThrows) ==
    IF ex.confirmationMode = "dry-run"
    THEN executeWithSafety(ex, clk, "mouse_move", Data("xy", x, y), robotThrows)
    ELSE IF ~checkAllowed(ex.allowedRegion, x, y)
    THEN checked(rejected("mouse_move", clk))
    ELSE checked(executeWithSafety(ex, clk, "mouse_move", Data("xy", x, y), robotThrows))

mouseMove(ex, clk, x, y, robotThrows) ==
    IF ~checkAllowed(ex.allowedRegion, x, y)
    THEN checked(rejected("mouse_move", clk))
    ELSE checked(executeWithSafety(ex, clk, "mouse_move", Data("xy", x, y), robotThrows))

click(ex, clk, x, y, robotThrows) ==
    IF ~checkAllowed(ex.allowedRegion, x, y)
    THEN checked(rejected("click", clk))
    ELSE checked(executeWithSafety(ex, clk, "click", Data("xy", x, y), robotThrows))

typeText(ex, clk, robotThrows) ==
    executeWithSafety(ex, clk, "type", Data("text", NoCoord, NoCoord), robotThrows)

pressKey(ex, clk, robotThrows) ==
    executeWithSafety(ex, clk, "key", Data("key", NoCoord, NoCoord), robotThrows)

\* doubleClick is click with two clicks
doubleClick(ex, clk, x, y, robotThrows) == click(ex, clk, x, y, robotThrows)

\* mutant: scroll does not look at the region
scrollUnchecked(ex, clk, x, y, robotThrows) ==
    executeWithSafety(ex, clk, "scroll", Data("scroll", NoCoord, NoCoord), robotThrows)

\* the region is checked only when both coordinates are given
scroll(ex, clk, x, y, robotThrows) ==
    IF x # NoCoord /\ y # NoCoord
    THEN IF ~checkAllowed(ex.allowedRegion, x, y)
         THEN checked(rejected("scroll", clk))
         ELSE checked(executeWithSafety(ex, clk, "scroll",
                                        Data("scroll", NoCoord, NoCoord), robotThrows))
    ELSE executeWithSafety(ex, clk, "scroll", Data("scroll", NoCoord, NoCoord), robotThrows)

\* whether the operation handed to executeWithSafety calls robot.moveMouse(x, y):
\* always in mouseMove and click, in scroll when both coordinates are given
movesPointer(actionType, x, y) ==
    \/ actionType \in {"mouse_move", "click"}
    \/ actionType = "scroll" /\ x # NoCoord /\ y # NoCoord

\* the points robot.moveMouse is called with in an executor call that returned r
pointerMoves(r, x, y) ==
    IF r.physical /\ movesPointer(r.result.actionType, x, y) THEN <<Obj(x, y)>> ELSE <<>>

\* the methods of the executor that take a point
PointerMethods == {"mouseMove", "click", "doubleClick", "scroll"}

\* a direct call of such a method
executorMethod(method, ex, clk, x, y, robotThrows) ==
    CASE method = "mouseMove" -> mouseMove(ex, clk, x, y, robotThrows)
      [] method = "click" -> click(ex, clk, x, y, robotThrows)
      [] method = "doubleClick" -> doubleClick(ex, clk, x, y, robotThrows)
      [] method = "scroll" -> scroll(ex, clk, x, y, robotThrows)

\* the executor method executeTool calls for a built-in tool name
executorCall(name, ex, clk, a, robotThrows) ==
    CASE name = "mouse_move" -> mouseMove(ex, clk, a.x, a.y, robotThrows)
      [] name = "click" -> click(ex, clk, a.x, a.y, robotThrows)
      [] name = "type" -> typeText(ex, clk, robotThrows)
      [] name = "key" -> pressKey(ex, clk, robotThrows)
      [] name = "scroll" -> scroll(ex, clk, a.x, a.y, robotThrows)

----------------------------------------------------------------------------
(* WorkflowEngine *)

\* customTools is a Map from name to ToolDefinition: a sequence of definitions
\* with distinct names, in insertion order
ToolDefinition(name, description, func) ==
    [name |-> name, description |-> description, function |-> func]

\* Map.set: the value of a key already present is replaced in place
mapSet(tools, def) ==
    IF \E i \in 1 .. Len(tools) : tools[i].name = def.name
    THEN [i \in 1 .. Len(tools) |-> IF tools[i].name = def.name THEN def ELSE tools[i]]
    ELSE Append(tools, def)

\* mutant: every registration adds an entry
registerToolAppend(wf, name, description, func) ==
    [wf EXCEPT !.customTools = Append(@, ToolDefinition(name, description, func))]

registerTool(wf, name, description, func) ==
    [wf EXCEPT !.customTools = mapSet(@, ToolDefinition(name, description, func))]

hasTool(wf, toolName) ==
    \E i \in 1 .. Len(wf.customTools) : wf.customTools[i].name = toolName

\* Map.get for a name that is present
getTool(wf, toolName) ==
    wf.customTools[CHOOSE i \in 1 .. Len(wf.customTools) : wf.customTools[i].name = toolName]

getToolSchemas(wf) ==
    [i \in 1 .. Len(wf.customTools) |->
        [name |-> wf.customTools[i].name, description |-> wf.customTools[i].description]]

getDefaultTools ==
    [i \in 1 .. 6 |->
        [name |-> <<"screenshot", "mouse_move", "click", "type", "key", "scroll">>[i],
         description |-> "builtin"]]

buildTools(wf) == getDefaultTools \o getToolSchemas(wf)

\* one entry per registered handler: what its predicate and handler do
HandlerBehaviour == {"false", "true", "condition_throws", "handler_throws"}

\* the for-of loop over the handlers of one action kind, from handler i on:
\* the condition is evaluated, the handler is invoked when it holds, and what
\* either of them throws is caught inside the loop body
RECURSIVE handlerLoop(_, _)
handlerLoop(hs, i) ==
    IF i > Len(hs) THEN [raised |-> FALSE, evaluated |-> <<>>, fired |-> <<>>]
    ELSE LET rest == handlerLoop(hs, i + 1)
             invoked == IF hs[i] \in {"true", "handler_throws"} THEN <<i>> ELSE <<>>
         IN  [raised |-> rest.raised,
              evaluated |-> <<i>> \o rest.evaluated,
              fired |-> invoked \o rest.fired]

\* mutant: no try/catch in the loop body, the first throw ends the loop
checkConditionalHandlersUncaught(hs) ==
    LET throwing == {i \in 1 .. Len(hs) : hs[i] \in {"condition_throws", "handler_throws"}}
    IN  IF throwing = {} THEN handlerLoop(hs, 1)
        ELSE [handlerLoop(SubSeq(hs, 1, CHOOSE i \in throwing : \A j \in throwing : i <= j), 1)
                EXCEPT !.raised = TRUE]

\* hs: what the handlers registered for the action kind do, in registration order
checkConditionalHandlers(hs) == handlerLoop(hs, 1)

----------------------------------------------------------------------------
(* Content blocks and messages *)

TextBlock == [type |-> "text"]
ImageBlock == [type |-> "image"]
ToolUse(id, name, input) == [type |-> "tool_use", id |-> id, name |-> name, input |-> input]
ToolResult(id, content) == [type |-> "tool_result", tool_use_id |-> id, content |-> content]
Message(role, content) == [role |-> role, content |-> content]

StopReasons == {"end_turn", "tool_use", "max_tokens"}

CoordinateTools == {"mouse_move", "click", "scroll"}
InputsFor(name) == IF name \in CoordinateTools THEN env.inputs ELSE {EmptyObj}

\* the blocks a reply may hold at position i of call number c (ids are unique)
BlocksAt(c, i) ==
    {TextBlock} \cup
    {ToolUse(c * MaxBlocks + i, np[1], np[2]) : np \in
        UNION {{<<m, q>> : q \in InputsFor(m)} : m \in env.names}}

Replies(c) ==
    UNION {{content \in [1 .. n -> UNION {BlocksAt(c, i) : i \in 1 .. n}] :
                \A i \in 1 .. n : content[i] \in BlocksAt(c, i)} : n \in 0 .. env.blocks}

\* no request made yet
NoRequest == [messages |-> <<>>, tools |-> <<>>]

NoFrame ==
    [name |-> "", id |-> 0, toolInput |-> EmptyObj, modifiedInput |-> EmptyObj,
     action |-> EmptyObj, result |-> NoResult]

\* nothing observed yet in this dispatch
NoObs ==
    [events |-> <<>>, toolCallBs |-> <<>>, toolCallSeen |-> <<>>, toolCalls |-> <<>>,
     beforeBs |-> <<>>, beforeSeen |-> <<>>, execArgs |-> <<>>, afterSeen |-> <<>>,
     handlerBs |-> <<>>, handlerSeen |-> <<>>, handlerFired |-> <<>>, slept |-> 0,
     hookBs |-> <<>>, hookOrder |-> <<>>, moves |-> <<>>]

----------------------------------------------------------------------------
(* ComputerUseAgent *)

\* takeScreenshot: before hooks, capture, lastScreenshot, after hooks
takeScreenshot(before, captureThrows, after) ==
    LET b == triggerBeforeScreenshot(before)
        a == triggerAfterScreenshot(after)
    IN  IF b.raised
        THEN [raised |-> TRUE, error |-> "HookError", at |-> "before_screenshot",
              captured |-> FALSE]
        ELSE IF captureThrows
        THEN [raised |-> TRUE, error |-> "CaptureError", at |-> "capture",
              captured |-> FALSE]
        ELSE IF a.raised
        THEN [raised |-> TRUE, error |-> "HookError", at |-> "after_screenshot",
              captured |-> TRUE]
        ELSE [raised |-> FALSE, error |-> "", at |-> "", captured |-> TRUE]

\* the catch block of run(): the failure result; ctx is this.context as the
\* code that raised has left it
FailureResult(ctx, error) ==
    [success |-> FALSE, error |-> error, iteration |-> iteration, state |-> ctx.state]

\* mutant: the exception is caught inside the loop, which goes on
AbortSwallowed(error, at) ==
    /\ returned' = returned
    /\ raised' = at
    /\ pc' = "iteration_end"
    /\ dispatched' = dispatched

\* an exception inside the try block of run(), raised by code that has not
\* touched the context
Abort(error, at) ==
    /\ returned' = <<FailureResult(context, error)>>
    /\ raised' = at
    /\ pc' = "done"
    /\ dispatched' = dispatched

\* the same, raised by a callback that has left the context as ctx
AbortWith(ctx, error, at) ==
    /\ returned' = <<FailureResult(ctx, error)>>
    /\ raised' = at
    /\ pc' = "done"
    /\ dispatched' = dispatched

\* an exception outside the try block: the promise of run() rejects
Reject(at) ==
    /\ returned' = returned
    /\ raised' = at
    /\ pc' = "rejected"
    /\ dispatched' = dispatched

\* a callback that writes context.state leaves a key there for the current
\* iteration; env.writers says which kinds of callback do so when invoked
writeState(ctx, who, invoked) ==
    IF invoked /\ who \in env.writers
    THEN [ctx EXCEPT !.state = @ \cup {<<who, ctx.iteration>>}]
    ELSE ctx

\* no exception: go on at the next position
Goto(next) ==
    /\ pc' = next
    /\ UNCHANGED <<returned, raised, dispatched>>

\* executeTool returns its ActionResult to the loop body of run()
Return ==
    /\ pc' = "push"
    /\ dispatched' = dispatched + 1
    /\ UNCHANGED <<returned, raised>>

\* mutant: the loop runs one pass too many
loopConditionOffByOne(i, n) == i <= n

\* the condition of the for loop of run()
loopCondition(i, n) == i < n

\* the locals of a run() call and what is recorded about it, before it starts
NoRun ==
    /\ iteration = 0
    /\ response = [stop_reason |-> "", content |-> <<>>]
    /\ blockIdx = 0
    /\ toolResults = <<>>
    /\ frame = NoFrame
    /\ returned = <<>>
    /\ calls = 0
    /\ robot = 0
    /\ obs = NoObs
    /\ stops = <<>>
    /\ raised = ""
    /\ historyBefore = 0
    /\ stateBefore = {}
    /\ dispatched = 0
    /\ ended = 0

\* a run() call begins with fresh locals
ResetRun ==
    /\ iteration' = 0
    /\ response' = [stop_reason |-> "", content |-> <<>>]
    /\ blockIdx' = 0
    /\ toolResults' = <<>>
    /\ frame' = NoFrame
    /\ returned' = <<>>
    /\ calls' = 0
    /\ robot' = 0
    /\ obs' = NoObs
    /\ stops' = <<>>
    /\ raised' = ""
    /\ historyBefore' = 0
    /\ stateBefore' = {}
    /\ dispatched' = 0
    /\ ended' = 0

\* mutant: run() goes on with the context the agent has
RunStartKeepsContext ==
    /\ pc \in {"idle", "done", "rejected"}
    /\ runs < env.runs
    /\ runs' = runs + 1
    /\ context' = context
    /\ messages' = <<>>
    /\ ResetRun
    /\ pc' = "initial_screenshot"
    /\ UNCHANGED <<config, request, clock>>

\* run() is called on an agent that is not running: the first two statements
RunStart ==
    /\ pc \in {"idle", "done", "rejected"}
    /\ runs < env.runs
    /\ runs' = runs + 1
    /\ context' = NewContext
    /\ messages' = <<>>
    /\ ResetRun
    /\ pc' = "initial_screenshot"
    /\ UNCHANGED <<config, request, clock>>

\* the first message of another run() call, made with another goal
OtherGoal == Message("user", <<ImageBlock, [type |-> "text", goal |-> "other"]>>)

\* run() is called again while the run that is followed is suspended: in its
\* initial screen capture, in a service round trip (the reply has not been
\* appended yet) or in an executor operation. The other call replaces
\* this.context and this.messages, captures the screen, appends its goal,
\* sets context.iteration and is itself suspended in its first service call
\* when the followed run resumes
OverlappingRun ==
    /\ pc \in {"initial_screenshot", "branch", "after_action"}
    /\ runs < env.runs
    /\ runs' = runs + 1
    /\ context' = [NewContext EXCEPT !.lastScreenshot = TRUE, !.iteration = 0]
    /\ messages' = IF pc = "branch"
                   THEN <<OtherGoal, Message("assistant", response.content)>>
                   ELSE <<OtherGoal>>
    /\ UNCHANGED <<config, request, clock, pc, iteration, response, blockIdx, toolResults,
                   frame, returned, calls, robot, obs, stops, raised, historyBefore,
                   stateBefore, dispatched, ended>>

\* the caller writes a key through the state getter while the agent is not
\* running; the result of the latest run holds the same object
CallerWrites ==
    /\ pc \in {"idle", "done", "rejected"}
    /\ <<"caller", runs>> \notin context.state
    /\ context' = [context EXCEPT !.state = @ \cup {<<"caller", runs>>}]
    /\ returned' = IF returned = <<>> THEN returned
                   ELSE <<[returned[1] EXCEPT !.state = context'.state]>>
    /\ UNCHANGED <<config, runs, request, clock, pc, iteration, messages, response, blockIdx,
                   toolResults, frame, calls, robot, obs, stops, raised, historyBefore,
                   stateBefore, dispatched, ended>>

InitialScreenshot ==
    /\ pc = "initial_screenshot"
    /\ \E before \in SeqOf(Observer, hooks.beforeScreenshot),
          captureThrows \in BOOLEAN,
          after \in SeqOf(Observer, hooks.afterScreenshot) :
        LET r == takeScreenshot(before, captureThrows, after)
        IN  /\ context' = [context EXCEPT !.lastScreenshot = @ \/ r.captured]
            /\ IF r.raised
               THEN Reject(r.at) /\ UNCHANGED <<messages, iteration>>
               ELSE /\ messages' = Append(messages, Message("user", <<ImageBlock, TextBlock>>))
                    /\ iteration' = 0
                    /\ Goto("loop")
    /\ UNCHANGED <<config, runs, request, clock, response, blockIdx, toolResults, frame, calls, robot,
                   obs, stops, historyBefore, stateBefore, ended>>

\* mutant: context.iteration is not kept up with the loop variable
setIterationOnce(ctx, i) == [ctx EXCEPT !.iteration = 0]

\* this.context.iteration = iteration
setIteration(ctx, i) == [ctx EXCEPT !.iteration = i]

IterationStart ==
    /\ pc = "loop"
    /\ loopCondition(iteration, maxIterations)
    /\ context' = setIteration(context, iteration)
    /\ stateBefore' = context.state
    /\ \E bs \in SeqOf(Observer, hooks.onIterationStart) :
        IF triggerOnIterationStart(bs).raised
        THEN Reject("iteration_start")
        ELSE Goto("call")
    /\ UNCHANGED <<config, runs, request, clock, iteration, messages, response, blockIdx, toolResults,
                   frame, calls, robot, obs, stops, historyBefore, ended>>

\* mutant: the service is sent the latest message only
createRequestLatest(history, wf) ==
    [messages |-> SubSeq(history, Len(history), Len(history)), tools |-> buildTools(wf)]

\* the messages and tools arguments of client.messages.create
createRequest(history, wf) == [messages |-> history, tools |-> buildTools(wf)]

CallService ==
    /\ pc = "call"
    /\ calls' = calls + 1
    /\ request' = createRequest(messages, workflow)
    /\ historyBefore' = Len(context.actionHistory)
    /\ \/ /\ Abort("ServiceError", "service")
          /\ UNCHANGED <<messages, response, stops>>
       \/ \E stop \in StopReasons, content \in Replies(calls) :
            /\ response' = [stop_reason |-> stop, content |-> content]
            /\ stops' = Append(stops, stop)
            /\ messages' = Append(messages, Message("assistant", content))
            /\ Goto("branch")
    /\ \E latency \in env.latencies : now' = now + latency
    /\ UNCHANGED <<config, runs, lastActionTime, iteration, context, blockIdx, toolResults,
                   frame, robot, obs, stateBefore, ended>>

\* mutant: no break, the pass goes on to the end of the loop body
EndTurnFallsThrough ==
    /\ pc = "branch"
    /\ response.stop_reason = "end_turn"
    /\ ended' = ended + 1
    /\ \E bs \in SeqOf(Observer, hooks.onIterationEnd) :
        IF triggerOnIterationEnd(bs).raised
        THEN Abort("HookError", "iteration_end")
        ELSE Goto("iteration_end")
    /\ UNCHANGED <<config, runs, request, clock, iteration, context, messages, response, blockIdx,
                   toolResults, frame, calls, robot, obs, stops, historyBefore, stateBefore>>

EndTurn ==
    /\ pc = "branch"
    /\ response.stop_reason = "end_turn"
    /\ ended' = ended + 1
    /\ \E bs \in SeqOf(Observer, hooks.onIterationEnd) :
        IF triggerOnIterationEnd(bs).raised
        THEN Abort("HookError", "iteration_end")
        ELSE Goto("break")
    /\ UNCHANGED <<config, runs, request, clock, iteration, context, messages, response, blockIdx,
                   toolResults, frame, calls, robot, obs, stops, historyBefore, stateBefore>>

BeginToolUse ==
    /\ pc = "branch"
    /\ response.stop_reason = "tool_use"
    /\ toolResults' = <<>>
    /\ blockIdx' = 1
    /\ Goto("blocks")
    /\ UNCHANGED <<config, runs, request, clock, iteration, context, messages, response, frame,
                   calls, robot, obs, stops, historyBefore, stateBefore, ended>>

\* mutant: the blocks of every reply that is not end_turn are dispatched
OtherStopDispatches ==
    /\ pc = "branch"
    /\ response.stop_reason \notin {"end_turn", "tool_use"}
    /\ toolResults' = <<>>
    /\ blockIdx' = 1
    /\ Goto("blocks")
    /\ UNCHANGED <<config, runs, request, clock, iteration, context, messages, response, frame,
                   calls, robot, obs, stops, historyBefore, stateBefore, ended>>

OtherStop ==
    /\ pc = "branch"
    /\ response.stop_reason \notin {"end_turn", "tool_use"}
    /\ Goto("iteration_end")
    /\ UNCHANGED <<config, runs, request, clock, iteration, context, messages, response, blockIdx,
                   toolResults, frame, calls, robot, obs, stops, historyBefore, stateBefore, ended>>

SkipBlock ==
    /\ pc = "blocks"
    /\ blockIdx <= Len(response.content)
    /\ response.content[blockIdx].type # "tool_use"
    /\ blockIdx' = blockIdx + 1
    /\ Goto("blocks")
    /\ UNCHANGED <<config, runs, request, clock, iteration, context, messages, response,
                   toolResults, frame, calls, robot, obs, stops, historyBefore, stateBefore, ended>>

\* mutant: the built-in names are looked at before the custom tools
toolBranchBuiltinFirst(wf, toolName) ==
    IF toolName = "screenshot" THEN "tool_screenshot"
    ELSE IF toolName \in ExecutorTools THEN "before_action"
    ELSE IF hasTool(wf, toolName) THEN "custom_tool"
    ELSE "unknown_tool"

\* the branch executeTool takes for a tool name
toolBranch(wf, toolName) ==
    IF hasTool(wf, toolName) THEN "custom_tool"
    ELSE IF toolName = "screenshot" THEN "tool_screenshot"
    ELSE IF toolName \in ExecutorTools THEN "before_action"
    ELSE "unknown_tool"

\* mutant: the error does not name the tool
unknownToolUnnamed(toolName) == Fail("screenshot", "Unknown tool")

\* the default case of executeTool's switch
unknownTool(toolName) == Fail("screenshot", "Unknown tool: " \o toolName)

\* executeTool, from its entry to the choice of the branch
ExecOnToolCall ==
    /\ pc = "blocks"
    /\ blockIdx <= Len(response.content)
    /\ response.content[blockIdx].type = "tool_use"
    /\ LET block == response.content[blockIdx]
       IN \E specific \in SeqOf(Mutator(env.replacements), hooks.onToolCall[block.name]),
             wildcard \in SeqOf(Mutator(env.replacements), hooks.onToolCall["*"]) :
            LET r == triggerOnToolCall(specific, wildcard, block.name, block.input)
                branch == toolBranch(workflow, block.name)
            IN  /\ obs' = [NoObs EXCEPT !.events = <<"on_tool_call">>,
                                        !.toolCallBs = specific \o wildcard,
                                        !.toolCallSeen = r.seen]
                /\ frame' = [name |-> block.name, id |-> block.id,
                             toolInput |-> block.input, modifiedInput |-> r.value,
                             action |-> r.value,
                             result |-> IF branch = "unknown_tool" /\ ~r.raised
                                        THEN unknownTool(block.name)
                                        ELSE NoResult]
                /\ context' = writeState(context, "on_tool_call", r.seen # <<>>)
                /\ IF r.raised THEN AbortWith(context', "HookError", "on_tool_call")
                   ELSE IF branch = "unknown_tool" THEN Return
                   ELSE Goto(branch)
    /\ UNCHANGED <<config, runs, request, clock, iteration, messages, response, blockIdx,
                   toolResults, calls, robot, stops, historyBefore, stateBefore, ended>>

\* mutant: the tool gets the raw input, not the hook-mutated one
customToolArgsRaw(f) == f.toolInput

\* the arguments executeTool passes to the custom tool
customToolArgs(f) == f.modifiedInput

\* mutant: no try/catch result, every outcome is reported as a success
customToolResultPhantom(outcome) == Ok("screenshot", Data("result", NoCoord, NoCoord))

\* the ActionResult of the hasTool branch: the tool returned or threw
customToolResult(outcome) ==
    IF outcome = "throw" THEN Fail("screenshot", "ToolError")
    ELSE Ok("screenshot", Data("result", NoCoord, NoCoord))

ExecCustomTool ==
    /\ pc = "custom_tool"
    /\ \E outcome \in Observer :
        /\ frame' = [frame EXCEPT !.result = customToolResult(outcome)]
        /\ obs' = [obs EXCEPT !.events = Append(@, "custom_tool"),
                              !.toolCalls = Append(@,
                                    [function |-> getTool(workflow, frame.name).function,
                                     args |-> customToolArgs(frame),
                                     outcome |-> outcome])]
    /\ context' = writeState(context, "custom_tool", TRUE)
    /\ Return
    /\ UNCHANGED <<config, runs, request, clock, iteration, messages, response, blockIdx,
                   toolResults, calls, robot, stops, historyBefore, stateBefore, ended>>

ExecScreenshot ==
    /\ pc = "tool_screenshot"
    /\ \E before \in SeqOf(Observer, hooks.beforeScreenshot),
          captureThrows \in BOOLEAN,
          after \in SeqOf(Observer, hooks.afterScreenshot) :
        LET r == takeScreenshot(before, captureThrows, after)
        IN  /\ context' = [context EXCEPT !.lastScreenshot = @ \/ r.captured]
            /\ IF r.raised
               THEN AbortWith(context', r.error, r.at) /\ UNCHANGED frame
               ELSE /\ frame' = [frame EXCEPT !.result =
                                    Ok("screenshot", Data("image", NoCoord, NoCoord))]
                    /\ Return
    /\ obs' = [obs EXCEPT !.events = Append(@, "screenshot")]
    /\ UNCHANGED <<config, runs, request, clock, iteration, messages, response, blockIdx, toolResults,
                   calls, robot, stops, historyBefore, stateBefore, ended>>

ExecBeforeAction ==
    /\ pc = "before_action"
    /\ \E bs \in SeqOf(Mutator(env.replacements), hooks.beforeAction) :
        LET r == triggerBeforeAction(bs, frame.modifiedInput)
        IN  /\ obs' = [obs EXCEPT !.events = Append(@, "before_action"),
                                  !.beforeBs = bs, !.beforeSeen = r.seen]
            /\ frame' = [frame EXCEPT !.action = r.value]
            /\ IF r.raised THEN Abort("HookError", "before_action")
               ELSE Goto("executor")
    /\ UNCHANGED <<config, runs, request, clock, iteration, context, messages, response, blockIdx,
                   toolResults, calls, robot, stops, historyBefore, stateBefore, ended>>

\* reading a field of a null payload throws before the executor is entered
ExecExecutor ==
    /\ pc = "executor"
    /\ IF frame.action.isNull
       THEN /\ Abort("TypeError", "payload")
            /\ UNCHANGED <<frame, robot, obs, clock>>
       ELSE \E robotThrows \in BOOLEAN :
            LET r == executorCall(frame.name, executor, Clock(now, lastActionTime),
                                  frame.action, robotThrows)
            IN  /\ frame' = [frame EXCEPT !.result = r.result]
                /\ robot' = IF r.physical THEN robot + 1 ELSE robot
                /\ now' = r.clock.now
                /\ lastActionTime' = r.clock.lastActionTime
                /\ obs' = [obs EXCEPT
                            !.events = @ \o <<"executor">> \o r.steps,
                            !.execArgs = Append(@, frame.action),
                            !.moves = @ \o pointerMoves(r, frame.action.x, frame.action.y),
                            !.slept = r.clock.slept]
                /\ Goto("after_action")
    /\ UNCHANGED <<config, runs, request, iteration, context, messages, response, blockIdx,
                   toolResults, calls, stops, historyBefore, stateBefore, ended>>

\* the payload executeTool hands to triggerAfterAction
afterActionPayload(f) == f.modifiedInput

ExecAfterAction ==
    /\ pc = "after_action"
    /\ \E bs \in SeqOf(Observer, hooks.afterAction) :
        LET r == triggerAfterAction(bs)
        IN  /\ obs' = [obs EXCEPT
                        !.events = Append(@, "after_action"),
                        !.afterSeen = [i \in 1 .. r.ran |->
                            [action |-> afterActionPayload(frame), result |-> frame.result]]]
            /\ IF r.raised THEN Abort("HookError", "after_action")
               ELSE Goto("handlers")
    /\ UNCHANGED <<config, runs, request, clock, iteration, context, messages, response, blockIdx,
                   toolResults, frame, calls, robot, stops, historyBefore, stateBefore, ended>>

\* mutant: the handlers get the payload the before-action chain returned
handlerPayloadReplaced(f) == f.action

\* the payload executeTool hands to checkConditionalHandlers
handlerPayload(f) == f.modifiedInput

ExecHandlers ==
    /\ pc = "handlers"
    /\ \E hs \in SeqOf(HandlerBehaviour, workflow.conditionalHandlers[frame.name]) :
        LET r == checkConditionalHandlers(hs)
        IN  /\ obs' = [obs EXCEPT
                        !.events = Append(@, "handlers"),
                        !.handlerBs = hs,
                        !.handlerSeen = [i \in 1 .. Len(r.evaluated) |->
                            [handler |-> r.evaluated[i], action |-> handlerPayload(frame)]],
                        !.handlerFired = r.fired]
            /\ IF r.raised THEN Abort("HandlerError", "handlers") ELSE Return
    /\ UNCHANGED <<config, runs, request, clock, iteration, context, messages, response, blockIdx,
                   toolResults, frame, calls, robot, stops, historyBefore, stateBefore, ended>>

\* mutant: a failed result is reported without its error
toolResultContentNoError(name, result) ==
    IF name = "screenshot" /\ result.data.kind # "none" THEN "image" ELSE "success"

\* the tool_result content built from an ActionResult
toolResultContent(name, result) ==
    IF result.success
    THEN IF name = "screenshot" /\ result.data.kind # "none" THEN "image" ELSE "success"
    ELSE "Error: " \o result.error

\* mutant: only a successful result is recorded in actionHistory
PushResultSuccessOnly ==
    /\ pc = "push"
    /\ context' = [context EXCEPT !.actionHistory =
                      IF frame.result.success THEN Append(@, frame.result) ELSE @]
    /\ toolResults' = Append(toolResults,
                             ToolResult(frame.id, toolResultContent(frame.name, frame.result)))
    /\ blockIdx' = blockIdx + 1
    /\ frame' = NoFrame
    /\ obs' = NoObs
    /\ Goto("blocks")
    /\ UNCHANGED <<config, runs, request, clock, iteration, messages, response, calls, robot, stops, historyBefore, stateBefore, ended>>

\* mutant: the newest result goes to the front
pushHistoryFront(history, result) == <<result>> \o history

\* this.context.actionHistory.push(result)
pushHistory(history, result) == Append(history, result)

\* executeTool has returned: the rest of the loop body of run() for this block
PushResult ==
    /\ pc = "push"
    /\ context' = [context EXCEPT !.actionHistory = pushHistory(@, frame.result)]
    /\ toolResults' = Append(toolResults,
                             ToolResult(frame.id, toolResultContent(frame.name, frame.result)))
    /\ blockIdx' = blockIdx + 1
    /\ frame' = NoFrame
    /\ obs' = NoObs
    /\ Goto("blocks")
    /\ UNCHANGED <<config, runs, request, clock, iteration, messages, response, calls, robot, stops, historyBefore, stateBefore, ended>>

AppendToolResults ==
    /\ pc = "blocks"
    /\ blockIdx > Len(response.content)
    /\ messages' = Append(messages, Message("user", toolResults))
    /\ Goto("iteration_end")
    /\ UNCHANGED <<config, runs, request, clock, iteration, context, response, blockIdx, toolResults,
                   frame, calls, robot, obs, stops, historyBefore, stateBefore, ended>>

IterationEnd ==
    /\ pc = "iteration_end"
    /\ ended' = ended + 1
    /\ \E bs \in SeqOf(Observer, hooks.onIterationEnd) :
        IF triggerOnIterationEnd(bs).raised
        THEN Abort("HookError", "iteration_end") /\ UNCHANGED iteration
        ELSE /\ iteration' = iteration + 1
             /\ Goto("loop")
    /\ UNCHANGED <<config, runs, request, clock, context, messages, response, blockIdx, toolResults,
                   frame, calls, robot, obs, stops, historyBefore, stateBefore>>

SuccessResult ==
    [success |-> TRUE, iterations |-> context.iteration + 1, state |-> context.state,
     actionHistory |-> context.actionHistory]

\* mutant: running out of iterations is reported as a failure
ReturnIncomplete ==
    /\ \/ pc = "break"
       \/ pc = "loop" /\ ~loopCondition(iteration, maxIterations)
    /\ returned' = <<[SuccessResult EXCEPT !.success = (pc = "break")]>>
    /\ pc' = "done"
    /\ UNCHANGED <<config, runs, request, clock, iteration, context, messages, response, blockIdx,
                   toolResults, frame, calls, robot, obs, stops, raised, historyBefore,
                   stateBefore, dispatched, ended>>

ReturnSuccess ==
    /\ \/ pc = "break"
       \/ pc = "loop" /\ ~loopCondition(iteration, maxIterations)
    /\ returned' = <<SuccessResult>>
    /\ pc' = "done"
    /\ UNCHANGED <<config, runs, request, clock, iteration, context, messages, response, blockIdx,
                   toolResults, frame, calls, robot, obs, stops, raised, historyBefore,
                   stateBefore, dispatched, ended>>

\* agent.tool(name, description, func) before any run
RegisterTool ==
    /\ pc = "idle"
    /\ \E name \in env.names, description \in Descriptions, func \in Functions :
        /\ Len(registered[name]) < MaxRegistrations
        /\ workflow' = registerTool(workflow, name, description, func)
        /\ registered' = [registered EXCEPT
                            ![name] = Append(@, ToolDefinition(name, description, func))]
    /\ UNCHANGED <<maxIterations, env, executor, hooks, runs, request, clock, pc, iteration,
                   context, messages, response, blockIdx, toolResults, frame, returned,
                   calls, robot, obs, stops, raised, historyBefore, stateBefore,
                   dispatched, ended>>

\* agent.callTool(name, args): WorkflowEngine.executeTool
CallTool ==
    /\ pc = "idle"
    /\ \E toolName \in env.names \cup {UnknownName}, outcome \in {"return", "throw"} :
        /\ frame' = [NoFrame EXCEPT !.name = toolName]
        /\ IF ~hasTool(workflow, toolName)
           THEN /\ obs' = NoObs
                /\ raised' = "Tool '" \o toolName \o "' not found"
           ELSE /\ obs' = [NoObs EXCEPT
                            !.events = <<"custom_tool">>,
                            !.toolCalls = <<[function |-> getTool(workflow, toolName).function,
                                             args |-> Obj(1, 1),
                                             outcome |-> outcome]>>]
                /\ raised' = IF outcome = "throw" THEN "custom_tool" ELSE ""
    /\ UNCHANGED <<config, runs, request, clock, pc, iteration, context, messages, response,
                   blockIdx, toolResults, returned, calls, robot, stops, historyBefore,
                   stateBefore, dispatched, ended>>

\* a direct call of an executor method on an agent that is not running
CallExecutor ==
    /\ pc = "idle"
    /\ robot < MaxCalls
    /\ \E method \in PointerMethods, x \in Coord \cup {NoCoord}, y \in Coord \cup {NoCoord},
          robotThrows \in BOOLEAN :
        LET r == executorMethod(method, executor, Clock(now, lastActionTime), x, y,
                                robotThrows)
        IN  /\ frame' = [NoFrame EXCEPT !.name = method, !.action = Obj(x, y),
                                        !.result = r.result]
            /\ robot' = IF r.physical THEN robot + 1 ELSE robot
            /\ now' = r.clock.now
            /\ lastActionTime' = r.clock.lastActionTime
            /\ obs' = [obs EXCEPT
                        !.events = <<"executor">> \o r.steps,
                        !.execArgs = <<Obj(x, y)>>,
                        !.moves = @ \o pointerMoves(r, x, y),
                        !.slept = r.clock.slept]
    /\ UNCHANGED <<config, runs, request, pc, iteration, context, messages, response,
                   blockIdx, toolResults, returned, calls, stops, raised, historyBefore,
                   stateBefore, dispatched, ended>>

\* the triggers whose callbacks return nothing
ObserverTriggers ==
    {"before_screenshot", "after_screenshot", "after_action", "iteration_start",
     "iteration_end"}

\* the number of callbacks registered for such a trigger
registeredFor(trigger) ==
    CASE trigger = "before_screenshot" -> hooks.beforeScreenshot
      [] trigger = "after_screenshot" -> hooks.afterScreenshot
      [] trigger = "after_action" -> hooks.afterAction
      [] trigger = "iteration_start" -> hooks.onIterationStart
      [] trigger = "iteration_end" -> hooks.onIterationEnd

\* the trigger method of HookRegistry for such a trigger
triggerObservers(trigger, bs) ==
    CASE trigger = "before_screenshot" -> triggerBeforeScreenshot(bs)
      [] trigger = "after_screenshot" -> triggerAfterScreenshot(bs)
      [] trigger = "after_action" -> triggerAfterAction(bs)
      [] trigger = "iteration_start" -> triggerOnIterationStart(bs)
      [] trigger = "iteration_end" -> triggerOnIterationEnd(bs)

\* a caller invokes one of the five triggers without a return value
CallTrigger ==
    /\ pc = "idle"
    /\ obs = NoObs
    /\ \E trigger \in ObserverTriggers :
        \E bs \in SeqOf(Observer, registeredFor(trigger)) :
            LET r == triggerObservers(trigger, bs)
            IN  /\ obs' = [NoObs EXCEPT !.events = <<trigger>>,
                                        !.hookBs = bs,
                                        !.hookOrder = r.order]
                /\ raised' = IF r.raised THEN trigger ELSE ""
                /\ frame' = NoFrame
    /\ UNCHANGED <<config, runs, request, clock, pc, iteration, context, messages, response,
                   blockIdx, toolResults, returned, calls, robot, stops, historyBefore,
                   stateBefore, dispatched, ended>>

\* a caller invokes triggerBeforeAction on a payload
CallBeforeAction ==
    /\ pc = "idle"
    /\ obs = NoObs
    /\ \E action \in env.inputs, bs \in SeqOf(Mutator(env.replacements), hooks.beforeAction) :
        LET r == triggerBeforeAction(bs, action)
        IN  /\ obs' = [NoObs EXCEPT !.events = <<"before_action">>,
                                    !.beforeBs = bs,
                                    !.beforeSeen = r.seen]
            /\ raised' = IF r.raised THEN "before_action" ELSE ""
            /\ frame' = [NoFrame EXCEPT !.modifiedInput = action, !.action = r.value]
    /\ UNCHANGED <<config, runs, request, clock, pc, iteration, context, messages, response,
                   blockIdx, toolResults, returned, calls, robot, stops, historyBefore,
                   stateBefore, dispatched, ended>>

\* a caller invokes triggerOnToolCall for a tool name and arguments
CallOnToolCall ==
    /\ pc = "idle"
    /\ obs = NoObs
    /\ \E toolName \in env.names, args \in env.inputs :
        \E specific \in SeqOf(Mutator(env.replacements), hooks.onToolCall[toolName]),
           wildcard \in SeqOf(Mutator(env.replacements), hooks.onToolCall["*"]) :
            LET r == triggerOnToolCall(specific, wildcard, toolName, args)
            IN  /\ obs' = [NoObs EXCEPT !.events = <<"on_tool_call">>,
                                        !.toolCallBs = specific \o wildcard,
                                        !.toolCallSeen = r.seen]
                /\ raised' = IF r.raised THEN "on_tool_call" ELSE ""
                /\ frame' = [NoFrame EXCEPT !.name = toolName, !.toolInput = args,
                                            !.modifiedInput = r.value]
    /\ UNCHANGED <<config, runs, request, clock, pc, iteration, context, messages, response,
                   blockIdx, toolResults, returned, calls, robot, stops, historyBefore,
                   stateBefore, dispatched, ended>>

Next ==
    \/ RunStart
    \/ InitialScreenshot
    \/ IterationStart
    \/ CallService
    \/ EndTurn
    \/ BeginToolUse
    \/ OtherStop
    \/ SkipBlock
    \/ ExecOnToolCall
    \/ ExecCustomTool
    \/ ExecScreenshot
    \/ ExecBeforeAction
    \/ ExecExecutor
    \/ ExecAfterAction
    \/ ExecHandlers
    \/ PushResult
    \/ AppendToolResults
    \/ IterationEnd
    \/ ReturnSuccess

\* runs of one agent, the caller writing its state in between
NextRuns == Next \/ CallerWrites

\* a run during which run() may be called again
NextOverlap == Next \/ OverlappingRun

\* direct calls of the executor
NextExecutor == CallExecutor

\* registrations and direct calls of custom tools
NextRegistry == RegisterTool \/ CallTool

\* one direct call of a trigger of the hook registry, the first made on it
NextHooks == CallTrigger \/ CallBeforeAction \/ CallOnToolCall

----------------------------------------------------------------------------
(* Initial states: the agent as constructed and configured, before run() *)

\* agent.tool(CustomName, "custom", 1) has been called once
OneTool ==
    /\ workflow = [customTools |-> <<ToolDefinition(CustomName, "custom", 1)>>,
                   conditionalHandlers |-> [n \in AllNames |-> 1]]
    /\ registered = [n \in AllNames |->
                        IF n = CustomName THEN <<ToolDefinition(CustomName, "custom", 1)>>
                        ELSE <<>>]

\* no callback registered anywhere
NoHooks ==
    [beforeScreenshot |-> 0, afterScreenshot |-> 0, beforeAction |-> 0,
     afterAction |-> 0, onIterationStart |-> 0, onIterationEnd |-> 0,
     onToolCall |-> [n \in AllNames \cup {"*"} |-> 0]]

HookKeys == AllNames \cup {"*"}

\* one callback in every list; the on-tool-call callback is a wildcard one
OneHookEach ==
    [beforeScreenshot |-> 1, afterScreenshot |-> 1, beforeAction |-> 1,
     afterAction |-> 1, onIterationStart |-> 1, onIterationEnd |-> 1,
     onToolCall |-> [n \in HookKeys |-> IF n = "*" THEN 1 ELSE 0]]

\* MaxHooks before-action callbacks, one or two in the other lists
ManyBeforeAction ==
    [beforeScreenshot |-> 1, afterScreenshot |-> 1, beforeAction |-> MaxHooks,
     afterAction |-> 2, onIterationStart |-> 1, onIterationEnd |-> 1,
     onToolCall |-> [n \in HookKeys |-> 0]]

\* on-tool-call callbacks for every name and for "*"
ManyOnToolCall ==
    [beforeScreenshot |-> 1, afterScreenshot |-> 1, beforeAction |-> 1,
     afterAction |-> 1, onIterationStart |-> 1, onIterationEnd |-> 1,
     onToolCall |-> [n \in HookKeys |-> 1]]

\* MaxChain on-tool-call callbacks for click, for the custom tool and for "*"
ChainedOnToolCall ==
    [beforeScreenshot |-> 1, afterScreenshot |-> 1, beforeAction |-> 1,
     afterAction |-> 1, onIterationStart |-> 1, onIterationEnd |-> 1,
     onToolCall |-> [n \in HookKeys |->
                        IF n \in {"click", CustomName, "*"} THEN MaxChain ELSE 0]]

Executors ==
    [allowedRegion : {<<>>, <<Region>>}, confirmationMode : Modes,
     safetyDelay : {DefaultSafetyDelay}, rateLimitDelay : {RateLimitDelay}]

Points == {Obj(x, y) : x \in Coord, y \in Coord}

Idle ==
    /\ pc = "idle"
    /\ context = NewContext
    /\ messages = <<>>
    /\ NoRun
    /\ runs = 0
    /\ request = NoRequest
    /\ now = StartTime
    /\ lastActionTime = 0

\* the run loop over several turns: few callbacks, a small vocabulary
Init ==
    /\ maxIterations \in 0 .. MaxIter
    /\ env = [names |-> {"screenshot", "click", CustomName},
              inputs |-> {Obj(1, 1), Obj(0, 1)},
              replacements |-> {Obj(2, 2), NullPayload},
              blocks |-> MaxBlocks,
              writers |-> {"on_tool_call", "custom_tool"},
              latencies |-> {0},
              runs |-> 1]
    /\ executor = [allowedRegion |-> <<Region>>, confirmationMode |-> "auto",
                   safetyDelay |-> DefaultSafetyDelay, rateLimitDelay |-> RateLimitDelay]
    /\ hooks = OneHookEach
    /\ OneTool
    /\ Idle

Spec == Init /\ [][Next]_vars

\* one turn with one block: every tool name, every point, many callbacks
InitDispatch ==
    /\ maxIterations = 1
    /\ env = [names |-> AllNames,
              inputs |-> Points \cup {EmptyObj, Obj(1, NoCoord)},
              replacements |-> {Obj(2, 2), Obj(3, 0), NullPayload},
              blocks |-> 1,
              writers |-> {},
              latencies |-> {0},
              runs |-> 1]
    /\ executor \in Executors
    /\ hooks \in {ManyBeforeAction, ManyOnToolCall}
    /\ workflow = [customTools |-> <<ToolDefinition(CustomName, "custom", 1)>>,
                   conditionalHandlers |-> [n \in AllNames |->
                        IF n = "key" THEN 2
                        ELSE IF n \in {"mouse_move", "scroll"} THEN 0 ELSE 1]]
    /\ registered = [n \in AllNames |->
                        IF n = CustomName THEN <<ToolDefinition(CustomName, "custom", 1)>>
                        ELSE <<>>]
    /\ Idle

SpecDispatch == InitDispatch /\ [][Next]_vars

\* one turn with one block: chains of on-tool-call callbacks
InitToolCall ==
    /\ maxIterations = 1
    /\ env = [names |-> {"screenshot", "click", CustomName},
              inputs |-> {Obj(1, 1)},
              replacements |-> {Obj(2, 2), Obj(3, 0), NullPayload},
              blocks |-> 1,
              writers |-> {},
              latencies |-> {0},
              runs |-> 1]
    /\ executor = [allowedRegion |-> <<>>, confirmationMode |-> "auto",
                   safetyDelay |-> DefaultSafetyDelay, rateLimitDelay |-> RateLimitDelay]
    /\ hooks = ChainedOnToolCall
    /\ OneTool
    /\ Idle

SpecToolCall == InitToolCall /\ [][Next]_vars

\* several runs of one agent: one turn each, one block, one callback per list
InitRuns ==
    /\ maxIterations = 1
    /\ env = [names |-> {"screenshot", "click", CustomName},
              inputs |-> {Obj(1, 1)},
              replacements |-> {Obj(2, 2)},
              blocks |-> 1,
              writers |-> {"on_tool_call", "custom_tool"},
              latencies |-> {0},
              runs |-> MaxRuns]
    /\ executor = [allowedRegion |-> <<Region>>, confirmationMode |-> "auto",
                   safetyDelay |-> DefaultSafetyDelay, rateLimitDelay |-> RateLimitDelay]
    /\ hooks = OneHookEach
    /\ OneTool
    /\ Idle

SpecRuns == InitRuns /\ [][NextRuns]_vars

\* the timing of physical actions, one block a turn: no callbacks, a service
\* that takes time, with and without a safety delay
InitTiming ==
    /\ maxIterations = MaxIter
    /\ env = [names |-> {"screenshot", "click", CustomName},
              inputs |-> {Obj(1, 1), Obj(0, 1)},
              replacements |-> {},
              blocks |-> 1,
              writers |-> {},
              latencies |-> {0, 30},
              runs |-> 1]
    /\ executor \in [allowedRegion : {<<Region>>}, confirmationMode : {"auto", "dry-run"},
                      safetyDelay : {0, DefaultSafetyDelay},
                      rateLimitDelay : {RateLimitDelay}]
    /\ hooks = NoHooks
    /\ OneTool
    /\ Idle

SpecTiming == InitTiming /\ [][Next]_vars

\* long runs, one block a turn: a pass more than MaxIter, so that a turn
\* follows two replies
InitStops ==
    /\ maxIterations = MaxIter + 1
    /\ env = [names |-> {"screenshot", "click", CustomName},
              inputs |-> {Obj(1, 1), Obj(0, 1)},
              replacements |-> {},
              blocks |-> 1,
              writers |-> {},
              latencies |-> {0},
              runs |-> 1]
    /\ executor = [allowedRegion |-> <<Region>>, confirmationMode |-> "auto",
                   safetyDelay |-> DefaultSafetyDelay, rateLimitDelay |-> RateLimitDelay]
    /\ hooks = NoHooks
    /\ OneTool
    /\ Idle

SpecStops == InitStops /\ [][Next]_vars

\* two run() calls on one agent without callbacks, one block a turn
InitOverlap ==
    /\ maxIterations = MaxIter
    /\ env = [names |-> {"screenshot", "click", CustomName},
              inputs |-> {Obj(1, 1)},
              replacements |-> {},
              blocks |-> 1,
              writers |-> {},
              latencies |-> {0},
              runs |-> MaxRuns]
    /\ executor = [allowedRegion |-> <<Region>>, confirmationMode |-> "auto",
                   safetyDelay |-> DefaultSafetyDelay, rateLimitDelay |-> RateLimitDelay]
    /\ hooks = NoHooks
    /\ OneTool
    /\ Idle

SpecOverlap == InitOverlap /\ [][NextOverlap]_vars

\* the registrations of custom tools under built-in names, in call order
ShadowedNames == {<<"click">>, <<"screenshot">>, <<"click", "screenshot">>}

\* agent.tool(n, "custom", 2) has been called for each name n of shadowed
Shadowing(shadowed) ==
    /\ workflow = [customTools |->
                        [i \in 1 .. Len(shadowed) |-> ToolDefinition(shadowed[i], "custom", 2)],
                   conditionalHandlers |-> [n \in AllNames |-> 1]]
    /\ registered = [n \in AllNames |->
                        IF \E i \in 1 .. Len(shadowed) : shadowed[i] = n
                        THEN <<ToolDefinition(n, "custom", 2)>>
                        ELSE <<>>]

\* one turn with one block on an agent with custom tools registered under
\* built-in names, a callback in every hook list and a handler for every name
InitShadow ==
    /\ maxIterations = 1
    /\ env = [names |-> {"screenshot", "click", "type"},
              inputs |-> {Obj(1, 1), Obj(0, 1)},
              replacements |-> {Obj(2, 2)},
              blocks |-> 1,
              writers |-> {},
              latencies |-> {0},
              runs |-> 1]
    /\ executor \in [allowedRegion : {<<Region>>}, confirmationMode : {"auto", "dry-run"},
                      safetyDelay : {DefaultSafetyDelay},
                      rateLimitDelay : {RateLimitDelay}]
    /\ hooks = OneHookEach
    /\ \E shadowed \in ShadowedNames : Shadowing(shadowed)
    /\ Idle

SpecShadow == InitShadow /\ [][Next]_vars

\* an executor with an allowed region and no safety delay, in every mode
InitExecutor ==
    /\ maxIterations = 1
    /\ env = [names |-> {"click"},
              inputs |-> {Obj(1, 1)},
              replacements |-> {},
              blocks |-> 1,
              writers |-> {},
              latencies |-> {0},
              runs |-> 1]
    /\ executor \in [allowedRegion : {<<Region>>}, confirmationMode : Modes,
                      safetyDelay : {0},
                      rateLimitDelay : {RateLimitDelay}]
    /\ hooks = NoHooks
    /\ OneTool
    /\ Idle

SpecExecutor == InitExecutor /\ [][NextExecutor]_vars

\* the tool registry: nothing registered yet, two names to register under
InitRegistry ==
    /\ maxIterations = 1
    /\ env = [names |-> {"click", CustomName},
              inputs |-> {Obj(1, 1)},
              replacements |-> {},
              blocks |-> 1,
              writers |-> {},
              latencies |-> {0},
              runs |-> 1]
    /\ executor = [allowedRegion |-> <<>>, confirmationMode |-> "auto",
                   safetyDelay |-> DefaultSafetyDelay, rateLimitDelay |-> RateLimitDelay]
    /\ hooks = NoHooks
    /\ workflow = [customTools |-> <<>>, conditionalHandlers |-> [n \in AllNames |-> 0]]
    /\ registered = [n \in AllNames |-> <<>>]
    /\ Idle

SpecRegistry == InitRegistry /\ [][NextRegistry]_vars

\* n callbacks in every list; under the on-tool-call keys of click and "*" as
\* many, up to MaxChain
HooksOf(n) ==
    [beforeScreenshot |-> n, afterScreenshot |-> n, beforeAction |-> n,
     afterAction |-> n, onIterationStart |-> n, onIterationEnd |-> n,
     onToolCall |-> [k \in HookKeys |->
                        IF k \in {"click", "*"}
                        THEN (IF n < MaxChain THEN n ELSE MaxChain) ELSE 0]]

\* the hook registry with up to MaxHooks callbacks per list; callbacks may
\* return an object, null or a falsy primitive
InitHooks ==
    /\ maxIterations = 1
    /\ env = [names |-> {"click", "type"},
              inputs |-> {Obj(1, 1)},
              replacements |-> {Obj(2, 2), NullPayload, Primitive("false")},
              blocks |-> 1,
              writers |-> {},
              latencies |-> {0},
              runs |-> 1]
    /\ executor = [allowedRegion |-> <<>>, confirmationMode |-> "auto",
                   safetyDelay |-> DefaultSafetyDelay, rateLimitDelay |-> RateLimitDelay]
    /\ hooks \in {HooksOf(n) : n \in 0 .. MaxHooks}
    /\ OneTool
    /\ Idle

SpecHooks == InitHooks /\ [][NextHooks]_vars

----------------------------------------------------------------------------
(* Properties of the run loop (specification Spec) *)

HookPoints ==
    {"before_screenshot", "after_screenshot", "iteration_start", "iteration_end",
     "on_tool_call", "before_action", "after_action"}

HasReturned == pc = "done" /\ Len(returned) = 1
ReturnedSuccess == HasReturned /\ returned[1].success
ReturnedFailure == HasReturned /\ ~returned[1].success

IsToolUse(b) == b.type = "tool_use"
IsToolResult(b) == b.type = "tool_result"

\* the tool_use blocks of a content list, in order
ToolUses(content) == SelectSeq(content, IsToolUse)

\* the number of tool_result blocks of the history that answer tool_use id
ResultCount(id) ==
    Cardinality({jk \in {<<j, k>> \in (1 .. Len(messages)) \X (1 .. MaxBlocks + 1) :
                            k <= Len(messages[j].content)} :
                    /\ IsToolResult(messages[jk[1]].content[jk[2]])
                    /\ messages[jk[1]].content[jk[2]].tool_use_id = id})

\* C1: at every call to the reasoning service, each tool_use block of each
\* assistant message of the history has exactly one tool_result block with its
\* id in the history, whatever stop signal came with the reply
C1_EveryToolUseAnswered ==
    pc = "call" =>
        \A j \in 1 .. Len(messages) :
            messages[j].role = "assistant" =>
                \A k \in 1 .. Len(messages[j].content) :
                    IsToolUse(messages[j].content[k]) =>
                        ResultCount(messages[j].content[k].id) = 1

\* the ActionType executeTool reports for a tool name
ActionTypeOf(name) == IF name \in ExecutorTools THEN name ELSE "screenshot"

\* the turn's reply is answered: one user message after the assistant message,
\* holding one tool_result per tool_use block, same ids, same order, and
\* actionHistory has grown by as many entries, in that order
TurnAnswered ==
    LET uses == ToolUses(response.content)
        n == Len(uses)
        last == messages[Len(messages)]
        history == context.actionHistory
    IN  /\ Len(messages) >= 3
        /\ messages[Len(messages) - 1] = Message("assistant", response.content)
        /\ last.role = "user"
        /\ Len(last.content) = n
        /\ Len(history) = historyBefore + n
        /\ \A i \in 1 .. n :
            /\ IsToolResult(last.content[i])
            /\ last.content[i].tool_use_id = uses[i].id
            /\ history[historyBefore + i].actionType = ActionTypeOf(uses[i].name)
            /\ last.content[i].content =
                    toolResultContent(uses[i].name, history[historyBefore + i])

\* the latest call returned a reply with stop signal tool_use, and its turn is
\* over: the iteration-end hooks are about to fire, or run() has returned
ToolUseTurnOver ==
    /\ pc \in {"iteration_end", "done"}
    /\ Len(stops) = calls
    /\ calls > 0
    /\ response.stop_reason = "tool_use"

AllStopsToolUse == \A i \in 1 .. Len(stops) : stops[i] = "tool_use"

\* C3: a run issues at most maxIterations service calls; when every reply
\* says tool_use and nothing raises it issues exactly maxIterations calls and
\* performs exactly maxIterations turns
C3_IterationBound ==
    /\ calls <= maxIterations
    /\ (ReturnedSuccess /\ AllStopsToolUse) =>
            /\ calls = maxIterations
            /\ Len(stops) = maxIterations
            /\ iteration = maxIterations

C3_Witness ==
    /\ ReturnedSuccess
    /\ AllStopsToolUse
    /\ calls = maxIterations
    /\ calls >= 2

\* C4: run never raises past its entry point
C4_NeverRejects == pc # "rejected"

\* C5: when an on-tool-call or before-action hook raises while a built-in
\* action is dispatched, the executor is not entered for it, the loop over the
\* reply's blocks stays at that block, and the run is over with a failure
\* result (no step is possible afterwards: no dispatch, no service call)
C5_HookVeto ==
    (raised \in {"on_tool_call", "before_action"} /\ frame.name \in BuiltinTools) =>
        /\ ReturnedFailure
        /\ obs.execArgs = <<>>
        /\ \A i \in 1 .. Len(obs.events) : obs.events[i] \notin {"executor", "robot"}
        /\ blockIdx <= Len(response.content)
        /\ response.content[blockIdx].id = frame.id
        /\ Len(stops) = calls
        /\ ~ENABLED Next

C5_Witness ==
    /\ raised = "before_action"
    /\ frame.name = "click"
    /\ ReturnedFailure
    /\ blockIdx < Len(response.content)
    /\ IsToolUse(response.content[blockIdx + 1])
    /\ calls < maxIterations

----------------------------------------------------------------------------
(* Properties of one dispatch (specification SpecDispatch) *)

Happened(event) == \E i \in 1 .. Len(obs.events) : obs.events[i] = event

RegionConfigured == executor.allowedRegion # <<>>

\* the point of a payload lies in Region, all four edges included
InsideRegion(p) ==
    /\ p.x \in Region.x .. Region.x + Region.width
    /\ p.y \in Region.y .. Region.y + Region.height

\* C6: with an allowed region, a click or mouse_move is permitted exactly
\* when its point lies in the region, edges included; outside, the result is
\* the out-of-region failure, the robot is not invoked, and the after-action
\* hooks still fire, with that failed result
C6_RegionInclusive ==
    (RegionConfigured /\ frame.name \in {"click", "mouse_move"} /\ obs.execArgs # <<>>) =>
        IF InsideRegion(obs.execArgs[1])
        THEN /\ frame.result # OutOfRegion(frame.name)
             /\ executor.confirmationMode # "dry-run" => Happened("robot")
        ELSE /\ frame.result = OutOfRegion(frame.name)
             /\ ~Happened("robot")
             /\ \/ pc = "after_action"
                \/ /\ Happened("after_action")
                   /\ Len(obs.afterSeen) >= 1
                   /\ \A i \in 1 .. Len(obs.afterSeen) :
                        obs.afterSeen[i].result = OutOfRegion(frame.name)

C6_Witness ==
    /\ RegionConfigured
    /\ frame.name = "click"
    /\ pc = "push"
    /\ obs.execArgs = <<Obj(Region.x + Region.width + 1, Region.y + Region.height)>>
    /\ frame.result = OutOfRegion("click")
    /\ Len(obs.afterSeen) >= 1

DryRun == executor.confirmationMode = "dry-run"
DryRunResult(actionType) == Ok(actionType, Data("dryRun", NoCoord, NoCoord))

Rejected(name, p) ==
    /\ RegionConfigured
    /\ ~InsideRegion(p)
    /\ \/ name \in {"click", "mouse_move"}
       \/ name = "scroll" /\ p.x # NoCoord /\ p.y # NoCoord

LastValue(bs, original) ==
    LET returning == {i \in 1 .. Len(bs) : bs[i].k = "value"}
    IN  IF returning = {} THEN original
        ELSE bs[CHOOSE i \in returning : \A j \in returning : j <= i].v

\* C8: the payload handed to the executor is the value returned by the last
\* before-action callback that returned one (the payload that left the
\* on-tool-call hooks if none did), and each callback received the payload as
\* replaced by the callbacks before it
C8_BeforeActionChain ==
    obs.execArgs # <<>> =>
        /\ obs.execArgs = <<LastValue(obs.beforeBs, frame.modifiedInput)>>
        /\ Len(obs.beforeSeen) = hooks.beforeAction
        /\ \A i \in 1 .. Len(obs.beforeSeen) :
            obs.beforeSeen[i] = LastValue(SubSeq(obs.beforeBs, 1, i - 1), frame.modifiedInput)

C8_Witness ==
    /\ Len(obs.beforeBs) >= 3
    /\ obs.beforeBs[1].k = "value"
    /\ obs.beforeBs[2].k = "undefined"
    /\ obs.beforeBs[3].k = "value"
    /\ obs.beforeBs[1].v # obs.beforeBs[3].v
    /\ obs.beforeBs[1].v # frame.modifiedInput
    /\ \A i \in 4 .. Len(obs.beforeBs) : obs.beforeBs[i].k = "undefined"
    /\ obs.execArgs = <<obs.beforeBs[3].v>>
    /\ Happened("robot")

\* C9: the after-action hooks receive the final payload, the one the
\* before-action chain produced and the executor was given, with the result
C9_AfterActionFinalPayload ==
    \A i \in 1 .. Len(obs.afterSeen) :
        /\ obs.afterSeen[i].action = frame.action
        /\ obs.afterSeen[i].result = frame.result

\* C10: for a registered custom tool the on-tool-call hooks run first, the
\* tool runs once with the arguments they produced, its return becomes a
\* successful and its throw a failed result without ending the run, and no
\* before-action or after-action hook, handler, executor or robot is involved
C10_CustomToolPath ==
    (hasTool(workflow, frame.name) /\ obs.events # <<>>) =>
        /\ raised \in {"", "on_tool_call"}
        /\ robot = 0
        /\ obs.beforeSeen = <<>> /\ obs.execArgs = <<>>
        /\ obs.afterSeen = <<>> /\ obs.handlerSeen = <<>>
        /\ IF raised = "on_tool_call" \/ pc = "custom_tool"
           THEN obs.events = <<"on_tool_call">> /\ obs.toolCalls = <<>>
           ELSE /\ pc = "push"
                /\ obs.events = <<"on_tool_call", "custom_tool">>
                /\ Len(obs.toolCalls) = 1
                /\ obs.toolCalls[1].args = LastValue(obs.toolCallBs, frame.toolInput)
                /\ frame.result.actionType = "screenshot"
                /\ frame.result.success = (obs.toolCalls[1].outcome = "return")

C10_Witness ==
    /\ frame.name = CustomName
    /\ pc = "push"
    /\ hooks.beforeAction >= 1 /\ hooks.afterAction >= 1
    /\ workflow.conditionalHandlers[CustomName] >= 1
    /\ Len(obs.toolCalls) = 1
    /\ obs.toolCalls[1].outcome = "throw"
    /\ obs.toolCalls[1].args # frame.toolInput
    /\ ~frame.result.success

\* the tool name is neither a registered custom tool nor a built-in action
IsUnknown(name) == name \notin BuiltinTools /\ ~hasTool(workflow, name)

UnknownToolResult(name) == Fail("screenshot", "Unknown tool: " \o name)

\* C11: once the on-tool-call hooks have returned, the dispatch of a tool name
\* that is neither custom nor built-in returns one failed ActionResult whose
\* error names the tool; no before-action or after-action hook, handler,
\* custom tool, executor operation or robot operation runs for it; the turn
\* goes on and answers the block with a tool_result reporting that error
C11_UnknownTool ==
    /\ (frame.name # "" /\ IsUnknown(frame.name) /\ raised = "") =>
            /\ pc = "push"
            /\ frame.result = UnknownToolResult(frame.name)
            /\ obs.events = <<"on_tool_call">>
            /\ obs.beforeSeen = <<>> /\ obs.execArgs = <<>>
            /\ obs.afterSeen = <<>> /\ obs.handlerSeen = <<>>
            /\ obs.toolCalls = <<>>
    /\ (ToolUseTurnOver /\ raised = "") =>
            LET uses == ToolUses(response.content)
                last == messages[Len(messages)]
                history == context.actionHistory
            IN  /\ Len(history) = historyBefore + Len(uses)
                /\ Len(last.content) = Len(uses)
                /\ \A i \in 1 .. Len(uses) :
                    IsUnknown(uses[i].name) =>
                        /\ history[historyBefore + i] = UnknownToolResult(uses[i].name)
                        /\ last.content[i] =
                            ToolResult(uses[i].id, "Error: Unknown tool: " \o uses[i].name)

C11_Witness ==
    /\ pc = "iteration_end"
    /\ raised = ""
    /\ Len(ToolUses(response.content)) = 1
    /\ ToolUses(response.content)[1].name = UnknownName
    /\ hooks.beforeAction >= 1 /\ hooks.afterAction >= 1
    /\ workflow.conditionalHandlers[UnknownName] >= 1
    /\ context.actionHistory = <<UnknownToolResult(UnknownName)>>
    /\ messages[Len(messages)].content[1].content = "Error: Unknown tool: bogus"

\* the handlers whose predicate held, in registration order
Firing(hs) == SelectSeq([i \in 1 .. Len(hs) |-> i],
                        LAMBDA i : hs[i] \in {"true", "handler_throws"})

\* C12: checkConditionalHandlers evaluates every handler registered for the
\* action kind, in registration order, and invokes exactly those whose
\* predicate returned true, also after an earlier predicate or handler has
\* raised; nothing a predicate or handler raises reaches executeTool
C12_HandlerIsolation ==
    Happened("handlers") =>
        /\ raised # "handlers"
        /\ pc = "push"
        /\ Len(obs.handlerBs) = workflow.conditionalHandlers[frame.name]
        /\ Len(obs.handlerSeen) = Len(obs.handlerBs)
        /\ \A i \in 1 .. Len(obs.handlerSeen) : obs.handlerSeen[i].handler = i
        /\ obs.handlerFired = Firing(obs.handlerBs)

C12_Witness ==
    /\ pc = "push"
    /\ obs.handlerBs = <<"handler_throws", "true">>
    /\ obs.handlerFired = <<1, 2>>
    /\ raised = ""

\* C13: the callbacks registered for the tool name run first, in registration
\* order, then the wildcard callbacks, in registration order; every callback
\* receives the arguments as replaced by the callbacks before it (those for
\* the name included), the wildcard ones receive the tool name as well; the
\* effective input is the last value a callback returned, the original input
\* when none returned one; a callback that raises ends the chain
C13_OnToolCallChain ==
    LET bs == obs.toolCallBs
        seen == obs.toolCallSeen
        specific == hooks.onToolCall[frame.name]
        throwing == {i \in 1 .. Len(bs) : bs[i].k = "throw"}
    IN  obs.events # <<>> =>
            /\ Len(bs) = specific + hooks.onToolCall["*"]
            /\ \A i \in 1 .. Len(seen) :
                /\ seen[i].args = LastValue(SubSeq(bs, 1, i - 1), frame.toolInput)
                /\ seen[i].toolName = IF i <= specific THEN "" ELSE frame.name
            /\ IF throwing = {}
               THEN /\ raised # "on_tool_call"
                    /\ Len(seen) = Len(bs)
                    /\ frame.modifiedInput = LastValue(bs, frame.toolInput)
               ELSE /\ raised = "on_tool_call"
                    /\ Len(seen) \in throwing
                    /\ \A j \in throwing : Len(seen) <= j

C13_Witness ==
    /\ pc = "before_action"
    /\ frame.name = "click"
    /\ hooks.onToolCall["click"] = 2
    /\ Len(obs.toolCallBs) >= 4
    /\ obs.toolCallBs[1].k = "value"
    /\ obs.toolCallBs[2].k = "undefined"
    /\ obs.toolCallBs[3].k = "value"
    /\ obs.toolCallBs[4].k = "undefined"
    /\ obs.toolCallBs[1].v # obs.toolCallBs[3].v
    /\ obs.toolCallSeen[3] = [toolName |-> "click", args |-> obs.toolCallBs[1].v]
    /\ Len(obs.toolCallBs) = 4 => frame.modifiedInput = obs.toolCallBs[3].v

----------------------------------------------------------------------------
(* Properties of the end of a run (specification Spec) *)

EndTurnSeen == \E i \in 1 .. Len(stops) : stops[i] = "end_turn"

\* the reply with end_turn is the last one; its blocks are not dispatched, the
\* service is not called again, and the iteration-end hooks have been
\* triggered once for it as for each turn before it
EndTurnIsLast ==
    /\ stops[Len(stops)] = "end_turn"
    /\ \A i \in 1 .. Len(stops) - 1 : stops[i] # "end_turn"
    /\ calls = Len(stops)
    /\ pc \in {"branch", "break", "done"}
    /\ Len(context.actionHistory) = historyBefore
    /\ dispatched = historyBefore
    /\ raised \in {"", "iteration_end"}
    /\ ended = IF pc = "branch" THEN calls - 1 ELSE calls

\* C14 as stated: after a reply with end_turn the iteration-end hooks fire
\* once for the turn, nothing is dispatched, the service is not called again
\* and the run returns success = true
C14_EndTurnSucceeds ==
    EndTurnSeen =>
        /\ EndTurnIsLast
        /\ HasReturned => returned[1].success

\* C14 amended: the same, but the run returns success = true only when no
\* iteration-end hook raises; when one raises it returns the failure result
C14_EndTurn ==
    EndTurnSeen =>
        /\ EndTurnIsLast
        /\ HasReturned => returned[1].success = (raised = "")
        /\ pc = "break" => raised = ""

C14_Witness ==
    /\ ReturnedSuccess
    /\ calls = 2
    /\ stops = <<"tool_use", "end_turn">>
    /\ Len(ToolUses(response.content)) = 2
    /\ historyBefore >= 1
    /\ ended = 2

\* max_iterations turns are over, none of them with end_turn or an error
Exhausted ==
    /\ pc \in {"loop", "done"}
    /\ ended = maxIterations
    /\ ~EndTurnSeen
    /\ raised = ""

\* C15: when max_iterations turns complete without end_turn and without
\* error, no further turn starts and the run returns a result with
\* success = true; a run that returns without end_turn and without error has
\* performed exactly max_iterations turns
C15_ExhaustionIsSuccess ==
    /\ Exhausted =>
            /\ calls = maxIterations
            /\ iteration = maxIterations
            /\ pc = "loop" => (ENABLED ReturnSuccess /\ ~ENABLED IterationStart)
            /\ pc = "done" => ReturnedSuccess
    /\ (HasReturned /\ raised = "" /\ ~EndTurnSeen) => Exhausted

C15_Witness ==
    /\ ReturnedSuccess
    /\ maxIterations = 2
    /\ stops = <<"max_tokens", "tool_use">>
    /\ Len(context.actionHistory) = 2

\* C16: the iteration count of a successful result is the number of turns
\* performed, that is of service calls made, for every max_iterations >= 0
C16_IterationsAreTurns ==
    ReturnedSuccess => returned[1].iterations = calls

\* C17: a failure result carries the error, the iteration, the state map and
\* the action history accumulated up to the failure
C17_FailureCarriesHistory ==
    ReturnedFailure =>
        /\ {"error", "iteration", "state", "actionHistory"} \subseteq DOMAIN returned[1]
        /\ returned[1].iteration = context.iteration
        /\ returned[1].state = context.state
        /\ returned[1].actionHistory = context.actionHistory

\* C18: the state of a failure result is the state as of the last completed
\* turn: what callbacks wrote during the failing turn is not in it
C18_FailureStateIsLastTurn ==
    ReturnedFailure => returned[1].state = stateBefore

\* C19: context.iteration starts at 0 and only ever grows, by one, when a
\* loop pass begins, where it takes the value of the loop variable; the loop
\* variable grows by one when the iteration-end hooks of a pass have returned;
\* when the iteration-start hooks of a pass fire, the iteration-end hooks of
\* every pass before it have fired and no dispatch is in progress: every
\* dispatch has returned and its result is in actionHistory
C19_IterationOrder ==
    [][/\ context'.iteration \in {context.iteration, context.iteration + 1}
       /\ context'.iteration # context.iteration => pc = "loop"
       /\ iteration' \in {iteration, iteration + 1}
       /\ iteration' # iteration => (pc = "iteration_end" /\ pc' = "loop")
       /\ (pc = "loop" /\ pc' \in {"call", "rejected"}) =>
            /\ context'.iteration = iteration
            /\ context.iteration = IF iteration = 0 THEN 0 ELSE iteration - 1
            /\ ended = iteration
            /\ dispatched = Len(context.actionHistory)
            /\ frame = NoFrame /\ obs = NoObs
       /\ pc' \notin {"idle", "initial_screenshot", "loop", "done", "rejected"} =>
            context'.iteration = iteration'
      ]_vars

C19_Witness ==
    /\ pc = "call"
    /\ context.iteration = 1
    /\ ended = 1
    /\ dispatched = 2
    /\ Len(context.actionHistory) = 2

\* the custom tool of the dispatch in progress has thrown
ToolThrew == obs.toolCalls # <<>> /\ obs.toolCalls[1].outcome = "throw"

\* C20: at every moment actionHistory holds one entry per executeTool call
\* that has returned an ActionResult (the entry of the call that has just
\* returned is pushed by the next statement); a step in which a hook or
\* anything else raises leaves actionHistory as it was; the result of a custom
\* tool that raised is pushed as it is, with success = false
C20_HistoryCountsDispatches ==
    [][/\ Len(context'.actionHistory) = dispatched' - (IF pc' = "push" THEN 1 ELSE 0)
       /\ raised' # raised => context'.actionHistory = context.actionHistory
       /\ pc = "push" =>
            /\ context'.actionHistory = Append(context.actionHistory, frame.result)
            /\ ToolThrew => ~frame.result.success
       /\ pc # "push" => context'.actionHistory = context.actionHistory
       /\ (pc = "custom_tool" /\ ToolThrew') => ~frame'.result.success
      ]_vars

C20_Witness ==
    /\ pc = "done"
    /\ raised = "before_action"
    /\ dispatched = 1
    /\ context.actionHistory = <<Fail("screenshot", "ToolError")>>
    /\ blockIdx = 2

----------------------------------------------------------------------------
(* C21: blocks are dispatched one after another *)

\* the positions inside one executeTool call and the push that follows it
DispatchPositions ==
    {"custom_tool", "tool_screenshot", "before_action", "executor", "after_action",
     "handlers", "push"}

\* the number of tool_use blocks before position i of the current reply
UsesBefore(i) ==
    Cardinality({k \in 1 .. Len(response.content) :
                    k < i /\ IsToolUse(response.content[k])})

\* C21: while the blocks of a tool_use reply are processed, exactly the
\* tool_use blocks before the current position have been dispatched to the
\* end: each has its tool_result and its actionHistory entry, both in block
\* order; between two dispatches nothing of a dispatch is in progress, and
\* everything a hook, the executor or a handler has seen in the dispatch in
\* progress belongs to the block at the current position
C21_BlocksInOrder ==
    (response.stop_reason = "tool_use" /\ pc \in DispatchPositions \cup {"blocks"}) =>
        LET uses == ToolUses(response.content)
            finished == UsesBefore(blockIdx)
            history == context.actionHistory
        IN  /\ Len(history) = historyBefore + finished
            /\ Len(toolResults) = finished
            /\ \A k \in 1 .. finished :
                /\ toolResults[k].tool_use_id = uses[k].id
                /\ history[historyBefore + k].actionType = ActionTypeOf(uses[k].name)
            /\ IF pc = "blocks"
               THEN frame = NoFrame /\ obs = NoObs
               ELSE /\ blockIdx <= Len(response.content)
                    /\ IsToolUse(response.content[blockIdx])
                    /\ frame.id = response.content[blockIdx].id
                    /\ frame.name = response.content[blockIdx].name
                    /\ obs.events # <<>>

\* the second of two tool_use blocks of different action types has gone
\* through its hooks, the executor and its handlers, after the first one
C21_Witness ==
    /\ pc = "push"
    /\ blockIdx = 2
    /\ IsToolUse(response.content[1])
    /\ response.content[1].name = "screenshot"
    /\ frame.name = "click"
    /\ Happened("handlers")
    /\ Len(context.actionHistory) = historyBefore + 1

----------------------------------------------------------------------------
(* C22: every run starts fresh *)

\* C22: whatever the agent holds when run() is called, from an earlier run or
\* written by the caller through the state getter, the call begins with a new
\* context (empty state, iteration 0, empty actionHistory) and no messages,
\* and once the initial screenshot is taken the message list is exactly one
\* user message: the screenshot image followed by the goal text
C22_FreshRun ==
    [][/\ (pc # "initial_screenshot" /\ pc' = "initial_screenshot") =>
            /\ context' = NewContext
            /\ messages' = <<>>
       /\ (pc = "initial_screenshot" /\ pc' = "loop") =>
            /\ context'.state = {}
            /\ context'.iteration = 0
            /\ context'.actionHistory = <<>>
            /\ messages' = <<Message("user", <<ImageBlock, TextBlock>>)>>]_vars

\* a second run has taken its initial screenshot on an agent whose robot has
\* acted for an earlier run
C22_Witness ==
    /\ runs = 2
    /\ pc = "loop"
    /\ iteration = 0
    /\ robot = 0
    /\ lastActionTime > 0
    /\ context.state = {}
    /\ context.actionHistory = <<>>
    /\ Len(messages) = 1

----------------------------------------------------------------------------
(* C23: the message history is append-only *)

IsPrefix(a, b) == Len(a) <= Len(b) /\ \A i \in 1 .. Len(a) : b[i] = a[i]

\* C23: within a run no step removes or rewrites a message: the history
\* after the step has the history before it as a prefix; and every call of
\* the service is handed the whole history as it stands at the call
C23_AppendOnly ==
    [][/\ runs' = runs => IsPrefix(messages, messages')
       /\ calls' # calls => request'.messages = messages]_vars

\* the second call of a run has been made with the first reply and its
\* tool results in the history
C23_Witness ==
    /\ calls = 2
    /\ Len(request.messages) = 3
    /\ request.messages[2].role = "assistant"
    /\ request.messages[3].role = "user"
    /\ Len(messages) = 4

----------------------------------------------------------------------------
(* C24: a reply with another stop signal *)

\* the reply of the current turn has a stop signal other than end_turn and
\* tool_use
OtherStopTurn ==
    /\ calls > 0
    /\ Len(stops) = calls
    /\ response.stop_reason \notin {"end_turn", "tool_use"}

\* the turn of such a reply up to its iteration-end hooks: nothing is
\* dispatched, actionHistory and the messages stay as they are, and the
\* iteration-end hooks are triggered
OtherStopSkipsBlocks ==
    /\ pc = "branch" =>
        /\ pc' = "iteration_end"
        /\ UNCHANGED <<context, messages, dispatched, robot, frame, obs, ended>>
    /\ pc = "iteration_end" =>
        /\ ended' = ended + 1
        /\ UNCHANGED <<context, messages, dispatched, robot, frame, obs>>

\* C24 as stated: after a reply whose stop signal is neither end_turn nor
\* tool_use nothing is dispatched, actionHistory is unchanged, no user
\* message is appended, the iteration-end hooks fire and the loop goes on to
\* its next pass
C24_OtherStopContinues ==
    [][OtherStopTurn =>
        /\ OtherStopSkipsBlocks
        /\ pc = "iteration_end" => (pc' = "loop" /\ iteration' = iteration + 1)]_vars

\* C24 amended: the same, but the loop goes on to its next pass only when no
\* iteration-end hook raises; when one raises the run returns the failure
\* result
C24_OtherStop ==
    [][OtherStopTurn =>
        /\ OtherStopSkipsBlocks
        /\ pc = "iteration_end" =>
            \/ pc' = "loop" /\ iteration' = iteration + 1 /\ raised' = ""
            \/ /\ pc' = "done"
               /\ raised' = "iteration_end"
               /\ returned' # <<>>
               /\ ~returned'[1].success]_vars

\* the second pass has begun after a reply with another stop signal that
\* held a tool_use block: the block was not dispatched
C24_Witness ==
    /\ pc = "call"
    /\ calls = 1
    /\ OtherStopTurn
    /\ ToolUses(response.content) # <<>>
    /\ ended = 1
    /\ context.iteration = 1
    /\ context.actionHistory = <<>>
    /\ Len(messages) = 2

----------------------------------------------------------------------------
(* C25: the spacing of physical actions *)

\* C25: the timestamp the executor records never decreases, and a step that
\* performs a physical operation records a timestamp, at which the operation
\* starts, that is at least the minimum spacing after the timestamp recorded
\* for the physical operation before it
C25_MinimumSpacing ==
    [][/\ lastActionTime' >= lastActionTime
       /\ robot' # robot =>
            /\ executor.confirmationMode # "dry-run"
            /\ now' >= lastActionTime'
            /\ lastActionTime' >= now
            /\ lastActionTime # 0 =>
                    lastActionTime' >= lastActionTime + executor.rateLimitDelay]_vars

\* the second physical operation of a run came too early and was held back
\* for a part of the minimum spacing
C25_Witness ==
    /\ pc = "after_action"
    /\ robot = 2
    /\ obs.slept > 0
    /\ obs.slept < executor.rateLimitDelay
    /\ now >= lastActionTime

----------------------------------------------------------------------------
(* C26: failures of the executor are handled locally *)

\* in the dispatch in progress the executor has rejected the action as out of
\* region, or its physical operation has raised
ExecutorFailed ==
    /\ frame.name \in ExecutorTools
    /\ Happened("executor")
    /\ ~frame.result.success

\* what follows a failed result of the executor, step by step: the executor
\* call itself does not end the run; every after-action hook invoked gets the
\* failed result; once they have returned every handler of the action kind is
\* evaluated; once executeTool has returned, the failed result is appended to
\* actionHistory and a tool_result with its error is added for the block
FailureIsObserved ==
    /\ (pc = "executor" /\ frame'.result # frame.result /\ ~frame'.result.success) =>
        /\ pc' = "after_action"
        /\ returned' = <<>>
        /\ frame'.result.error \in {"RobotError", OutOfRegion(frame.name).error}
    /\ (ExecutorFailed /\ pc = "after_action") =>
        /\ hooks.afterAction > 0 => Len(obs'.afterSeen) >= 1
        /\ \A i \in 1 .. Len(obs'.afterSeen) : obs'.afterSeen[i].result = frame.result
    /\ (ExecutorFailed /\ pc = "handlers") =>
        /\ Len(obs.afterSeen) = hooks.afterAction
        /\ Len(obs'.handlerSeen) = workflow.conditionalHandlers[frame.name]
        /\ pc' = "push"
    /\ (ExecutorFailed /\ pc = "push") =>
        /\ context'.actionHistory = Append(context.actionHistory, frame.result)
        /\ toolResults' = Append(toolResults,
                                 ToolResult(frame.id, "Error: " \o frame.result.error))
        /\ pc' = "blocks"

\* C26 as stated: a failed result of the executor does not abort the run:
\* the after-action hooks and the handlers are invoked with it, it is
\* appended to actionHistory and its error is reported in a tool_result
C26_FailureNeverAborts ==
    [][/\ FailureIsObserved
       /\ (ExecutorFailed /\ pc = "after_action") => pc' = "handlers"]_vars

\* C26 amended: the same when no after-action hook raises; when one raises,
\* the run returns the failure result, as it does after a successful action
C26_FailureHandledLocally ==
    [][/\ FailureIsObserved
       /\ (ExecutorFailed /\ pc = "after_action") =>
            \/ pc' = "handlers" /\ Len(obs'.afterSeen) = hooks.afterAction
            \/ /\ pc' = "done"
               /\ raised' = "after_action"
               /\ ~returned'[1].success]_vars

\* the error of a physical operation that raised has been sent to the
\* service with the second request of the run
C26_Witness ==
    /\ calls = 2
    /\ Len(request.messages) = 3
    /\ request.messages[3].role = "user"
    /\ \E k \in 1 .. Len(request.messages[3].content) :
            request.messages[3].content[k].content = "Error: RobotError"
    /\ \E k \in 1 .. Len(context.actionHistory) :
            context.actionHistory[k] = Fail("click", "RobotError")

----------------------------------------------------------------------------
(* C27: the tool registry *)

\* the names registerTool has been called with
RegisteredNames == {n \in AllNames : registered[n] # <<>>}

\* the latest registerTool call made under a name
LatestRegistration(n) == registered[n][Len(registered[n])]

\* the registry holds one tool for each name registered and no other, each
\* being the latest registration under its name; the schema list has one
\* schema for each of these names, with the latest description; registering
\* a tool again with the name, description and function it has leaves the
\* registry as it is
RegistryIsLatest ==
    LET tools == workflow.customTools
        schemas == getToolSchemas(workflow)
    IN  /\ \A i, j \in 1 .. Len(tools) : tools[i].name = tools[j].name => i = j
        /\ {tools[i].name : i \in 1 .. Len(tools)} = RegisteredNames
        /\ \A n \in RegisteredNames :
            /\ hasTool(workflow, n)
            /\ getTool(workflow, n) = LatestRegistration(n)
            /\ Cardinality({i \in 1 .. Len(schemas) : schemas[i].name = n}) = 1
            /\ \E i \in 1 .. Len(schemas) :
                    schemas[i] = [name |-> n,
                                  description |-> LatestRegistration(n).description]
            /\ registerTool(workflow, n, LatestRegistration(n).description,
                            LatestRegistration(n).function) = workflow
        /\ Len(schemas) = Cardinality(RegisteredNames)

\* the call just made invoked the function of the latest registration under
\* its name, or failed because nothing is registered under it
CallIsLatest ==
    IF obs.toolCalls # <<>>
    THEN /\ frame.name \in RegisteredNames
         /\ Len(obs.toolCalls) = 1
         /\ obs.toolCalls[1].function = LatestRegistration(frame.name).function
    ELSE /\ frame.name \notin RegisteredNames
         /\ raised = "Tool '" \o frame.name \o "' not found"

\* C27: after every registerTool call the registry holds exactly one tool per
\* distinct name, the latest one, and one schema per distinct name, and a
\* repeated identical registration changes nothing; every callTool call
\* invokes the function of the most recent registration under the name
C27_LastRegistrationWins ==
    [][/\ RegistryIsLatest'
       /\ registered' = registered => CallIsLatest']_vars

\* a tool registered twice, the second time with another function, has been
\* called, next to another registered tool
C27_Witness ==
    /\ pc = "idle"
    /\ Len(workflow.customTools) = 2
    /\ Len(registered[CustomName]) = 2
    /\ registered[CustomName][1].function # registered[CustomName][2].function
    /\ frame.name = CustomName
    /\ obs.toolCalls # <<>>
    /\ obs.toolCalls[1].function = registered[CustomName][2].function
    /\ workflow.customTools[1].name = CustomName

----------------------------------------------------------------------------
(* C28: the hooks around built-in actions *)

\* C28 as stated: when the dispatch of a built-in action, screenshot
\* included, returns its result, the before-action chain ran before the
\* action was executed, and the after-action hooks and the conditional
\* handlers of its kind ran after it
C28_EveryBuiltinIsHooked ==
    (pc = "push" /\ frame.name \in BuiltinTools /\ ~hasTool(workflow, frame.name)) =>
        \E b, e, a, h \in 1 .. Len(obs.events) :
            /\ obs.events[b] = "before_action"
            /\ obs.events[e] \in {"executor", "screenshot"}
            /\ obs.events[a] = "after_action"
            /\ obs.events[h] = "handlers"
            /\ b < e
            /\ e < a
            /\ a < h

----------------------------------------------------------------------------
(* C29: the steps of one dispatch of an executor tool *)

\* the steps of a dispatch in the order the claim gives them
StepOrder ==
    <<"on_tool_call", "before_action", "executor", "region_check", "dry_run_check",
      "rate_limit", "robot", "safety_delay", "after_action", "handlers">>

StepIndex(step) == CHOOSE i \in 1 .. Len(StepOrder) : StepOrder[i] = step

\* the steps taken so far are steps of the list, in its order, none twice
StepsInOrder ==
    /\ \A i \in 1 .. Len(obs.events) :
            \E k \in 1 .. Len(StepOrder) : StepOrder[k] = obs.events[i]
    /\ \A i, j \in 1 .. Len(obs.events) :
            i < j => StepIndex(obs.events[i]) < StepIndex(obs.events[j])

\* a dispatch that has returned went through the hooks, the executor and the
\* handlers and has one ActionResult; a physical operation came after the
\* rate limit, a safety delay only after a physical operation
StepsComplete ==
    LET n == Len(obs.events)
    IN  /\ n >= 5
        /\ SubSeq(obs.events, 1, 3) = <<"on_tool_call", "before_action", "executor">>
        /\ SubSeq(obs.events, n - 1, n) = <<"after_action", "handlers">>
        /\ Happened("robot") => Happened("rate_limit")
        /\ Happened("safety_delay") => Happened("robot")
        /\ frame.result # NoResult
        /\ frame.result.actionType = frame.name

\* the dispatch in progress, or the one the run ended in, is one of an
\* executor tool
ExecutorDispatch ==
    /\ pc \in DispatchPositions \cup {"done"}
    /\ frame.name \in ExecutorTools
    /\ ~hasTool(workflow, frame.name)

\* C29 as stated: a dispatch of mouse_move, click, type, key or scroll takes
\* its steps in the fixed order, each at most once, and ends with exactly one
\* ActionResult
C29_OneResultPerDispatch ==
    ExecutorDispatch =>
        /\ StepsInOrder
        /\ pc \in {"push", "done"} => (pc = "push" /\ StepsComplete)

\* C29 amended: the same, but a dispatch in which an on-tool-call, a
\* before-action or an after-action hook raises, or which reads a payload a
\* hook replaced by null, ends at that step with no ActionResult and the run
\* returns the failure result
C29_StepsInOrder ==
    ExecutorDispatch =>
        /\ StepsInOrder
        /\ pc = "push" => StepsComplete
        /\ pc = "done" =>
            /\ raised \in {"on_tool_call", "before_action", "payload", "after_action"}
            /\ ~Happened("handlers")
            /\ ~returned[1].success
            /\ Len(context.actionHistory) = historyBefore + UsesBefore(blockIdx)

\* a click has gone through every step, the physical operation and the
\* safety delay included, and has returned its result
C29_Witness ==
    /\ pc = "push"
    /\ frame.name = "click"
    /\ frame.result.success
    /\ obs.events = StepOrder

----------------------------------------------------------------------------
(* C30: the region check comes before the dry-run short-circuit *)

\* C30: in dry-run mode, once the executor has been called for a mouse_move,
\* click, type, key or scroll: when the action carries coordinates outside
\* the allowed region, the region check has rejected it with the failed
\* out-of-region result and the dry-run test was never reached; in every
\* other case the result is the successful dry-run result, reached after the
\* region check when there was one
C30_RegionBeforeDryRun ==
    (DryRun /\ frame.name \in ExecutorTools /\ Happened("executor")) =>
        IF Rejected(frame.name, obs.execArgs[1])
        THEN /\ frame.result = OutOfRegion(frame.name)
             /\ ~frame.result.success
             /\ Happened("region_check")
             /\ ~Happened("dry_run_check")
        ELSE /\ frame.result = DryRunResult(frame.name)
             /\ frame.result.success
             /\ Happened("dry_run_check")
             /\ obs.events[Len(obs.events)] = "dry_run_check" =>
                    obs.events[Len(obs.events) - 1] \in {"executor", "region_check"}

\* in dry-run mode a mouse_move to a point outside the region has been
\* rejected
C30_Witness ==
    /\ DryRun
    /\ RegionConfigured
    /\ pc = "push"
    /\ frame.name = "mouse_move"
    /\ ~InsideRegion(obs.execArgs[1])
    /\ frame.result = OutOfRegion("mouse_move")
    /\ Happened("handlers")

----------------------------------------------------------------------------
(* C31: callbacks of one trigger run in order, up to the first that raises *)

\* the callbacks at positions 1 .. n of bs were invoked, in this order, where
\* n is the position of the first callback that raises, or all of them when
\* none raises; the trigger raises exactly when a callback does
UpToFirstThrow(throws, invoked, didRaise) ==
    LET first == IF \E i \in 1 .. Len(throws) : throws[i]
                 THEN CHOOSE i \in 1 .. Len(throws) :
                        throws[i] /\ \A j \in 1 .. i - 1 : ~throws[j]
                 ELSE Len(throws)
    IN  /\ invoked = first
        /\ didRaise = (\E i \in 1 .. Len(throws) : throws[i])

\* C31: in each of the seven triggers the callbacks are invoked in
\* registration order; a callback that raises is the last one invoked and
\* the trigger raises to its caller; in the two chains each callback
\* receives the payload as the callbacks before it have left it
C31_FirstThrowEndsTrigger ==
    /\ (pc = "idle" /\ obs.events # <<>> /\ obs.events[1] \in ObserverTriggers) =>
        /\ obs.hookOrder = [i \in 1 .. Len(obs.hookOrder) |-> i]
        /\ UpToFirstThrow([i \in 1 .. Len(obs.hookBs) |-> obs.hookBs[i] = "throw"],
                          Len(obs.hookOrder), raised = obs.events[1])
    /\ (pc = "idle" /\ obs.events = <<"before_action">>) =>
        /\ UpToFirstThrow([i \in 1 .. Len(obs.beforeBs) |-> obs.beforeBs[i].k = "throw"],
                          Len(obs.beforeSeen), raised = "before_action")
        /\ \A i \in 1 .. Len(obs.beforeSeen) :
                obs.beforeSeen[i] = LastValue(SubSeq(obs.beforeBs, 1, i - 1),
                                              frame.modifiedInput)
    /\ (pc = "idle" /\ obs.events = <<"on_tool_call">>) =>
        /\ UpToFirstThrow([i \in 1 .. Len(obs.toolCallBs) |-> obs.toolCallBs[i].k = "throw"],
                          Len(obs.toolCallSeen), raised = "on_tool_call")
        /\ \A i \in 1 .. Len(obs.toolCallSeen) :
                obs.toolCallSeen[i].args = LastValue(SubSeq(obs.toolCallBs, 1, i - 1),
                                                     frame.toolInput)

\* the second of three iteration-end callbacks has raised: the third was not
\* invoked
C31_Witness ==
    /\ obs.events = <<"iteration_end">>
    /\ Len(obs.hookBs) = 3
    /\ obs.hookBs[1] = "return"
    /\ obs.hookBs[2] = "throw"
    /\ obs.hookOrder = <<1, 2>>
    /\ raised = "iteration_end"

----------------------------------------------------------------------------
(* C32: every returned value other than undefined replaces the payload *)

\* what the callback after position i receives, or the trigger returns when
\* i is the last one: the value callback i returned, null and falsy
\* primitives included, and what callback i received when it returned
\* undefined
Passes(bs, seen, final) ==
    \A i \in 1 .. Len(seen) :
        bs[i].k # "throw" =>
            LET handedOn == IF i < Len(seen) THEN seen[i + 1] ELSE final
            IN  handedOn = IF bs[i].k = "value" THEN bs[i].v ELSE seen[i]

\* C32: in the before-action chain and in the on-tool-call chain a value a
\* callback returns, whether an object, null or a falsy primitive, is the
\* payload of the next callback and, after the last one, the payload the
\* trigger returns for dispatch; a callback that returns undefined leaves
\* the payload as it received it
C32_AnyValueReplaces ==
    /\ (pc = "idle" /\ obs.events = <<"before_action">>) =>
            Passes(obs.beforeBs, obs.beforeSeen, frame.action)
    /\ (pc = "idle" /\ obs.events = <<"on_tool_call">>) =>
            Passes(obs.toolCallBs,
                   [i \in 1 .. Len(obs.toolCallSeen) |-> obs.toolCallSeen[i].args],
                   frame.modifiedInput)

\* an on-tool-call callback under the tool's name returned null, the
\* wildcard callback after it received null and returned false, which is
\* what the trigger returned
C32_Witness ==
    /\ obs.events = <<"on_tool_call">>
    /\ raised = ""
    /\ Len(obs.toolCallSeen) >= 2
    /\ \E i \in 1 .. Len(obs.toolCallSeen) - 1 :
        /\ obs.toolCallBs[i] = [k |-> "value", v |-> NullPayload]
        /\ obs.toolCallSeen[i + 1].args = NullPayload
        /\ obs.toolCallSeen[i].toolName = ""
        /\ obs.toolCallSeen[i + 1].toolName = frame.name
    /\ obs.toolCallBs[Len(obs.toolCallBs)] = [k |-> "value", v |-> Primitive("false")]
    /\ frame.modifiedInput = Primitive("false")

----------------------------------------------------------------------------
(* C33: the roles of the history sent to the service *)

\* the roles alternate, the first one being user
Alternates(history) ==
    \A j \in 1 .. Len(history) :
        history[j].role = IF j % 2 = 1 THEN "user" ELSE "assistant"

\* C33: in every message history sent to the reasoning service the roles
\* strictly alternate starting with user, so that no two assistant messages
\* are adjacent, whatever stop signals the service has returned
C33_RolesAlternate == Alternates(request.messages)

----------------------------------------------------------------------------
(* C34: the record of the physical actions *)

\* an ActionResult of an executor operation that reached the robot: not a
\* dry-run description, not a rejection for the region
RecordsPhysical(result) ==
    /\ result.actionType \in ExecutorTools
    /\ IF result.success
       THEN result.data # Data("dryRun", NoCoord, NoCoord)
       ELSE result.error = "RobotError"

\* C34: when the run has returned, every physical action the executor
\* performed during it has its ActionResult in the run's actionHistory, also
\* when an after-action hook raised after the action was performed
C34_EveryActionRecorded ==
    pc = "done" =>
        robot <= Cardinality({i \in 1 .. Len(context.actionHistory) :
                                RecordsPhysical(context.actionHistory[i])})

----------------------------------------------------------------------------
(* C35: run() called during a run *)

\* C35: a run() call made while an earlier run of the same agent is
\* suspended does not disturb the earlier run: the histories the earlier run
\* sends to the service after resuming hold only messages it appended
\* itself, none of the other call
C35_EarlierRunUndisturbed ==
    \A j \in 1 .. Len(request.messages) : request.messages[j] # OtherGoal

----------------------------------------------------------------------------
(* C36: a custom tool under a built-in name *)

\* the tool of the dispatch under way is a built-in name with a custom tool
\* registered under it
ShadowedDispatch == frame.name \in BuiltinTools /\ hasTool(workflow, frame.name)

\* C36: a custom tool registered under a built-in name shadows the built-in:
\* a dispatch of that name never enters the screenshot branch, the
\* before-action chain, the executor (region check, dry-run check, rate
\* limiter, robot), the after-action hooks or the conditional handlers, and
\* when it returns the registered function has been called once, after the
\* on-tool-call chain and nothing else
C36_CustomShadowsBuiltin ==
    ShadowedDispatch =>
        /\ pc \notin {"tool_screenshot", "before_action", "executor", "after_action",
                      "handlers"}
        /\ pc = "push" =>
            /\ obs.events = <<"on_tool_call", "custom_tool">>
            /\ Len(obs.toolCalls) = 1
            /\ obs.toolCalls[1].function = getTool(workflow, frame.name).function
            /\ obs.execArgs = <<>>
            /\ obs.beforeSeen = <<>>
            /\ obs.afterSeen = <<>>
            /\ obs.handlerSeen = <<>>
            /\ robot = 0
            /\ lastActionTime = 0

\* a click block has been dispatched on an agent whose custom tool "click"
\* is registered and whose region excludes the point of the block
C36_Witness ==
    /\ pc = "push"
    /\ frame.name = "click"
    /\ hasTool(workflow, "click")
    /\ frame.modifiedInput = Obj(0, 1)
    /\ ~checkAllowed(executor.allowedRegion, 0, 1)
    /\ frame.result.success
    /\ Len(obs.toolCalls) = 1

----------------------------------------------------------------------------
(* C37: confirmation mode confirm *)

\* the executor as it would be in mode auto
InAuto(ex) == [ex EXCEPT !.confirmationMode = "auto"]

----------------------------------------------------------------------------
(* C38: the payload of the conditional handlers *)

\* C38: the predicates and handlers registered for an action kind are
\* evaluated on the input as it left the on-tool-call chain, whatever the
\* before-action chain has replaced the payload by
C38_HandlersSeeToolCallInput ==
    (obs.events # <<>> /\ obs.events[Len(obs.events)] = "handlers") =>
        \A i \in 1 .. Len(obs.handlerSeen) :
            /\ obs.handlerSeen[i].action = frame.modifiedInput
            /\ obs.handlerSeen[i].action = LastValue(obs.toolCallBs, frame.toolInput)

\* the on-tool-call chain replaced the input, the before-action chain
\* replaced the payload by something else, the executor acted on that, and
\* a handler of the action kind was evaluated
C38_Witness ==
    /\ obs.events # <<>>
    /\ obs.events[Len(obs.events)] = "handlers"
    /\ Len(obs.handlerSeen) >= 1
    /\ frame.modifiedInput # frame.toolInput
    /\ frame.action # frame.modifiedInput
    /\ obs.execArgs = <<frame.action>>
    /\ obs.handlerSeen[1].action # frame.action

----------------------------------------------------------------------------
(* C39: the pointer and the allowed region *)

\* the point lies in the rectangle, edges included
Inside(region, p) ==
    /\ p.x # NoCoord
    /\ p.y # NoCoord
    /\ region.x <= p.x
    /\ p.x <= region.x + region.width
    /\ region.y <= p.y
    /\ p.y <= region.y + region.height

\* C39: with an allowed region configured, whatever executor operations have
\* been called (mouseMove, click, doubleClick, scroll with both, one or no
\* coordinates) and in whatever confirmation mode, every point the pointer
\* has been moved to lies inside the region
C39_PointerStaysInRegion ==
    executor.allowedRegion # <<>> =>
        \A i \in 1 .. Len(obs.moves) : Inside(executor.allowedRegion[1], obs.moves[i])

\* a scroll at a point outside the region was rejected and moved nothing,
\* after an operation that moved the pointer to a point of the region
C39_Witness ==
    /\ executor.allowedRegion # <<>>
    /\ pc = "idle"
    /\ Len(obs.moves) = 1
    /\ Inside(executor.allowedRegion[1], obs.moves[1])
    /\ frame.name = "scroll"
    /\ frame.action.x # NoCoord
    /\ frame.action.y # NoCoord
    /\ ~Inside(executor.allowedRegion[1], frame.action)
    /\ ~frame.result.success
    /\ robot = 1

====
